---- MODULE Spec2Model ----
(***************************************************************************)
(* Model of the per-call realtime session orchestrator of src/server.ts:   *)
(* the call registry, one CallSession object per accepted call, the        *)
(* handlers of the realtime event table, the response gate and follow-up   *)
(* queue, the tool dispatch and the turn timer.                            *)
(*                                                                         *)
(* A handler is a pure operator on a "work" record                         *)
(*     [s |-> the CallSession, out |-> messages passed to session.ws.send, *)
(*      reqs |-> the ResponseRequests handed to maybeRespond]              *)
(* and an action applies one whole handler to one session.  The variables  *)
(* out and reqs hold what the LAST step sent and requested.                *)
(***************************************************************************)
EXTENDS Integers, Sequences, FiniteSets, TLC

\* ---------------------------------------------------------------- bounds
MaxReq == 2          \* tool dispatches (each makes one follow-up request)
MaxRuns == 1         \* tool executions in flight at once
MaxArgLen == 1       \* argument fragments buffered per pending tool
MaxSess == 2         \* CallSession objects that can be constructed
MaxFrags == 2        \* argument fragments streamed for one item
MaxNotify == 2       \* call-incoming notifications taken in
MaxHeaders == 2      \* entries of a SIP header list
MaxValueLen == 4     \* pieces of a From header's text
MaxPieces == 3       \* pieces of a caller transcript
MaxCallKeys == 3     \* call ids the analytics engine is given
MaxClock == 1        \* advances of the wall clock
KeepCalls == 1       \* calls a cleanup keeps: the engine keeps 100, a
                     \*   number the model scales down

\* ------------------------------------------------------ program constants
MinGapMs == 500      \* session.minGapMs
BargeGuardMs == 2000 \* bargeGuardUntil = Date.now() + 2000
TurnDelayMs == 150   \* setTimeout(..., 150)

\* Date.now().  Times are measured from the present reading of the clock:
\* the present is 0, and when the clock advances every stored time moves
\* back by as much (a stored time that has passed is kept as 0).  The
\* program only compares stored times with the clock and stores the clock
\* plus a delay, so nothing it does depends on the origin.
now == 0

\* the clock is read in steps of the response gate's length
TickMs == MinGapMs

SessIds == 1..MaxSess
CallIds == {"call_1", "call_2"}
ResponseIds == {"resp_1", "resp_2"}
NoId == "none"       \* getString(...) === undefined

\* tools.ts: the tool table (two of its entries)
ToolTable == {"lookup_order", "handoff_human"}

VARIABLES
    registry,   \* sessions: Map<callId, CallSession>  (0: no entry)
    sess,       \* the CallSession objects, by object identity
    timers,     \* outstanding setTimeout callbacks: [sid, id, due]
    runs,       \* suspended fulfillToolCall frames awaiting runTool
    nextReq,    \* serial number of the next tool follow-up request
    out,        \* messages passed to ws.send by the last step
    reqs,       \* requests handed to maybeRespond by the last step
    sentSet,    \* history: ids of the follow-up requests sent
    queuedSet,  \* history: ids of the requests ever put in the queue
    madeSet,    \* history: ids of the queueIfBlocked requests made
    tracked,    \* whether awaiting is kept (the liveness claims' provider)
    awaiting,   \* history: response.create messages delivered and not yet
                \*   answered by a response.created event
    openResps,  \* history: ids created and not since completed/cancelled
    greetings,  \* history: number of greeting requests made (capped)
    settled,    \* history: the id of the follow-up request made by the tool
                \*   completion handled in this step, 0 when there was none
    intakes,    \* handleIncomingCall invocations under way, per call id:
                \*   scheduled by setTimeout, and suspended at await acceptCall
    http,       \* status of the webhook's last response (0: none yet)
    notified,   \* history: notifications taken in per call id
    lastIntake, \* how the handleIncomingCall that ended last ended
    voiceRetries, \* history: voice fallback updates sent per session (capped)
    alive,      \* the server process is running
    sipHeaders, \* the webhook event's data.sip_headers
    callerPhone, \* the webhook's callerPhone, read from sipHeaders
    usePrettyLogs, \* observe.ts: LOG_FORMAT === 'pretty'
    transcript, \* the text of a transcription-completed event
    logLines,   \* what handling that event wrote to the console
    callMetrics, \* analytics.ts: AnalyticsEngine.callMetrics, the entries of
                \*   the Map in insertion order
    wallClock,  \* analytics.ts: what Date.now() returns
    swept       \* history: the call ids the last step's cleanup deleted

vars == <<registry, sess, timers, runs, nextReq, out, reqs,
          sentSet, queuedSet, madeSet, tracked, awaiting, openResps, greetings,
          settled, intakes, http, notified, lastIntake, voiceRetries, alive,
          sipHeaders, callerPhone, usePrettyLogs, transcript, logLines,
          callMetrics, wallClock, swept>>

intakeVars == <<intakes, http, notified, lastIntake>>

\* what the helpers outside the session core work on
phoneVars == <<sipHeaders, callerPhone>>
logVars == <<usePrettyLogs, transcript, logLines>>
analyticsVars == <<callMetrics, wallClock, swept>>
auxVars == <<phoneVars, logVars, analyticsVars>>

\* the registry, the sessions and what is recorded about them
coreVars == <<registry, sess, timers, runs, nextReq, out, reqs,
              sentSet, queuedSet, madeSet, tracked, awaiting, openResps,
              greetings, settled, intakes, http, notified, lastIntake,
              voiceRetries, alive>>

\* ------------------------------------------------------------- utilities
RECURSIVE SetToSeq(_)
SetToSeq(S) ==
    IF S = {} THEN <<>>
    ELSE LET x == CHOOSE y \in S : TRUE IN <<x>> \o SetToSeq(S \ {x})

Range(q) == {q[k] : k \in DOMAIN q}

\* attachSidebandWebSocket: the session literal (ws is the socket's state;
\* "none" marks an object that has not been constructed yet)
NewSession(callId) ==
    [ callId            |-> callId,
      ws                |-> "connecting",
      pendingTools      |-> <<>>,
      activeResponses   |-> {},
      configured        |-> FALSE,
      greeted           |-> FALSE,
      toolsUnlocked     |-> FALSE,
      responseGateUntil |-> 0,
      pendingTurnTimer  |-> 0,
      minGapMs          |-> MinGapMs,
      userSpeaking      |-> FALSE,
      heardUser         |-> FALSE,
      bargeGuardUntil   |-> 0,
      pendingFollowUps  |-> <<>> ]

Unbuilt == [NewSession(NoId) EXCEPT !.ws = "none"]

\* what a handler works on: the session object it was given (sid is its
\* identity), the timers and tool executions outstanding, and what it has sent
\* and requested so far
Work(sid) ==
    [sid |-> sid, s |-> sess[sid], timers |-> timers, runs |-> runs,
     nextReq |-> nextReq, out |-> <<>>, reqs |-> <<>>]

\* ------------------------------------------------------ outbound messages
\* ref: the response_id or call_id the message carries; req, source: the id
\* and source tag of the request a response.create was sent for; delivered:
\* the socket was open; active: the size of activeResponses at the send;
\* ws: the socket it was passed to (named by the session that owns it)
Msg(type, ref, req, source, delivered, active, ws) ==
    [type |-> type, ref |-> ref, req |-> req, source |-> source,
     delivered |-> delivered, active |-> active, ws |-> ws]

\* ws.send on a socket the module keeps in one place for all calls: the
\* socket of the session constructed last
WsSendOnNewestSocket(w, type, ref, req, source) ==
    LET built == {i \in DOMAIN sess : sess[i].ws # "none"}
        newest == CHOOSE i \in built : \A j \in built : j <= i
    IN  [w EXCEPT !.out = Append(@, Msg(type, ref, req, source,
                                        sess[newest].ws = "open",
                                        Cardinality(w.s.activeResponses),
                                        newest))]

\* session.ws.send(JSON.stringify(...)): the message reaches the provider
\* only while the socket is open
WsSend(w, type, ref, req, source) ==
    [w EXCEPT !.out = Append(@, Msg(type, ref, req, source, w.s.ws = "open",
                                    Cardinality(w.s.activeResponses), w.sid))]

\* sendSessionUpdate(session, patch); the patch is named by its first key
SendSessionUpdate(w, patch) == WsSend(w, "session.update", NoId, 0, patch)

\* ---------------------------------------------------- response requests
\* the instructions text written at the place a request is made: the
\* greeting prompt, the turn prompt, the apology of the catch block, and for
\* a tool's success the text built from its output ("generic")
Prompt(source) ==
    IF source = "greeting" THEN "greetingPrompt"
    ELSE IF source = "turn_response" THEN "turn_prompt"
    ELSE IF source = "tool_follow_up_error" THEN "apology"
    ELSE "generic"

Request(source, id, queueIfBlocked) ==
    [source |-> source, id |-> id, queueIfBlocked |-> queueIfBlocked,
     instructions |-> Prompt(source)]

EnqueueFollowUp(w, request) ==
    [w EXCEPT !.s.pendingFollowUps =
        Append(@, [request EXCEPT !.queueIfBlocked = TRUE])]

\* maybeRespond without its test of activeResponses
MaybeRespondIgnoringActive(w, request) ==
    LET s == w.s
        w1 == [w EXCEPT !.reqs = Append(@, request)]
    IN  IF now < s.responseGateUntil
        THEN IF request.queueIfBlocked THEN EnqueueFollowUp(w1, request) ELSE w1
        ELSE [WsSend(w1, "response.create", NoId, request.id, request.source)
                EXCEPT !.s.responseGateUntil = now + s.minGapMs]

\* maybeRespond without its test of responseGateUntil
MaybeRespondIgnoringGate(w, request) ==
    LET s == w.s
        w1 == [w EXCEPT !.reqs = Append(@, request)]
    IN  IF Cardinality(s.activeResponses) > 0
        THEN IF request.queueIfBlocked THEN EnqueueFollowUp(w1, request) ELSE w1
        ELSE [WsSend(w1, "response.create", NoId, request.id, request.source)
                EXCEPT !.s.responseGateUntil = now + s.minGapMs]

\* maybeRespond sending without resetting the gate
MaybeRespondKeepingGate(w, request) ==
    LET s == w.s
        w1 == [w EXCEPT !.reqs = Append(@, request)]
    IN  IF Cardinality(s.activeResponses) > 0
        THEN IF request.queueIfBlocked THEN EnqueueFollowUp(w1, request) ELSE w1
        ELSE IF now < s.responseGateUntil
        THEN IF request.queueIfBlocked THEN EnqueueFollowUp(w1, request) ELSE w1
        ELSE WsSend(w1, "response.create", NoId, request.id, request.source)

\* maybeRespond queueing every request it cannot send
MaybeRespondQueueingAll(w, request) ==
    LET s == w.s
        w1 == [w EXCEPT !.reqs = Append(@, request)]
    IN  IF Cardinality(s.activeResponses) > 0 \/ now < s.responseGateUntil
        THEN EnqueueFollowUp(w1, request)
        ELSE [WsSend(w1, "response.create", NoId, request.id, request.source)
                EXCEPT !.s.responseGateUntil = now + s.minGapMs]

MaybeRespond(w, request) ==
    LET s == w.s
        w1 == [w EXCEPT !.reqs = Append(@, request)]
    IN  IF Cardinality(s.activeResponses) > 0
        THEN IF request.queueIfBlocked THEN EnqueueFollowUp(w1, request) ELSE w1
        ELSE IF now < s.responseGateUntil
        THEN IF request.queueIfBlocked THEN EnqueueFollowUp(w1, request) ELSE w1
        ELSE [WsSend(w1, "response.create", NoId, request.id, request.source)
                EXCEPT !.s.responseGateUntil = now + s.minGapMs]

\* flushPendingFollowUps handing the request on as a best-effort one
FlushWithoutRequeue(w) ==
    IF Len(w.s.pendingFollowUps) = 0 THEN w
    ELSE LET next == Head(w.s.pendingFollowUps)
         IN  MaybeRespond([w EXCEPT !.s.pendingFollowUps = Tail(@)],
                          [next EXCEPT !.queueIfBlocked = FALSE])

FlushPendingFollowUps(w) ==
    IF Len(w.s.pendingFollowUps) = 0 THEN w
    ELSE LET next == Head(w.s.pendingFollowUps)
         IN  MaybeRespond([w EXCEPT !.s.pendingFollowUps = Tail(@)], next)

RequestTurnResponse(w) == MaybeRespond(w, Request("turn_response", 0, FALSE))

\* ------------------------------------------------------ response lifecycle
\* cancelActiveResponses: one response.cancel per id of the set, then clear
RECURSIVE SendCancels(_, _)
SendCancels(w, ids) ==
    IF Len(ids) = 0 THEN w
    ELSE SendCancels(WsSend(w, "response.cancel", Head(ids), 0, ""), Tail(ids))

\* cancelActiveResponses cancelling only the first id of the set
CancelFirstResponseOnly(w) ==
    IF Cardinality(w.s.activeResponses) = 0 THEN w
    ELSE [SendCancels(w, <<Head(SetToSeq(w.s.activeResponses))>>)
            EXCEPT !.s.activeResponses = {}]

CancelActiveResponses(w) ==
    IF Cardinality(w.s.activeResponses) = 0 THEN w
    ELSE [SendCancels(w, SetToSeq(w.s.activeResponses))
            EXCEPT !.s.activeResponses = {}]

\* updateResponseLifecycle clearing the whole set on a completion
UpdateResponseLifecycleClearing(w, responseId, action) ==
    IF responseId = NoId THEN w
    ELSE IF action = "add"
    THEN [w EXCEPT !.s.activeResponses = @ \cup {responseId}]
    ELSE FlushPendingFollowUps([w EXCEPT !.s.activeResponses = {}])

\* updateResponseLifecycle(session, event, 'add' | 'remove');
\* responseId = NoId when event.response.id is not a string
UpdateResponseLifecycle(w, responseId, action) ==
    IF responseId = NoId THEN w
    ELSE IF action = "add"
    THEN [w EXCEPT !.s.activeResponses = @ \cup {responseId}]
    ELSE LET w1 == [w EXCEPT !.s.activeResponses = @ \ {responseId}]
         IN  IF Cardinality(w1.s.activeResponses) = 0
             THEN FlushPendingFollowUps(w1)
             ELSE w1

\* ------------------------------------------------------------ voice activity
\* clearTimeout(handle): the callback with that handle is no longer outstanding
ClearTimeout(w, handle) ==
    [w EXCEPT !.timers = {t \in @ : ~(t.sid = w.sid /\ t.id = handle)}]

\* setTimeout(callback, delayMs): a new handle (the least one not in use)
SetTimeout(w, delayMs) ==
    LET used == {t.id : t \in {u \in w.timers : u.sid = w.sid}}
        id == CHOOSE k \in 1..(Cardinality(used) + 1) : k \notin used
    IN  [w EXCEPT !.timers = @ \cup {[sid |-> w.sid, id |-> id,
                                      due |-> now + delayMs]},
                  !.s.pendingTurnTimer = id]

\* handleSpeechStarted without its barge guard test
HandleSpeechStartedUnguarded(w) ==
    LET w2 == CancelActiveResponses([w EXCEPT !.s.userSpeaking = TRUE])
    IN  IF w2.s.pendingTurnTimer # 0
        THEN [ClearTimeout(w2, w2.s.pendingTurnTimer)
                EXCEPT !.s.pendingTurnTimer = 0]
        ELSE w2

\* handleSpeechStarted forgetting the scheduled turn without clearTimeout
HandleSpeechStartedForgettingTimer(w) ==
    LET w1 == [w EXCEPT !.s.userSpeaking = TRUE]
    IN  IF ~w1.s.toolsUnlocked /\ now < w1.s.bargeGuardUntil
        THEN w1
        ELSE [CancelActiveResponses(w1) EXCEPT !.s.pendingTurnTimer = 0]

\* handleSpeechStarted leaving the scheduled turn alone
HandleSpeechStartedKeepingTimer(w) ==
    LET w1 == [w EXCEPT !.s.userSpeaking = TRUE]
    IN  IF ~w1.s.toolsUnlocked /\ now < w1.s.bargeGuardUntil
        THEN w1
        ELSE CancelActiveResponses(w1)

HandleSpeechStarted(w) ==
    LET w1 == [w EXCEPT !.s.userSpeaking = TRUE]
    IN  IF ~w1.s.toolsUnlocked /\ now < w1.s.bargeGuardUntil
        THEN w1
        ELSE LET w2 == CancelActiveResponses(w1)
             IN  IF w2.s.pendingTurnTimer # 0
                 THEN [ClearTimeout(w2, w2.s.pendingTurnTimer)
                         EXCEPT !.s.pendingTurnTimer = 0]
                 ELSE w2

\* handleSpeechStopped scheduling the turn whether or not the caller has
\* been heard
HandleSpeechStoppedUnheard(w) ==
    IF ~(w.s.configured /\ w.s.userSpeaking) THEN w
    ELSE LET w1 == [w EXCEPT !.s.userSpeaking = FALSE]
             w2 == IF w1.s.pendingTurnTimer # 0
                   THEN ClearTimeout(w1, w1.s.pendingTurnTimer)
                   ELSE w1
         IN  SetTimeout(w2, TurnDelayMs)

HandleSpeechStopped(w) ==
    IF ~(w.s.configured /\ w.s.userSpeaking) THEN w
    ELSE LET w1 == [w EXCEPT !.s.userSpeaking = FALSE]
         IN  IF ~w1.s.heardUser THEN w1
             ELSE LET w2 == IF w1.s.pendingTurnTimer # 0
                            THEN ClearTimeout(w1, w1.s.pendingTurnTimer)
                            ELSE w1
                  IN  SetTimeout(w2, TurnDelayMs)

\* the setTimeout callback of handleSpeechStopped; handle is the callback's
\* own timer, which is no longer outstanding once it runs
TurnTimerCallback(w, handle) ==
    [RequestTurnResponse(ClearTimeout(w, handle))
        EXCEPT !.s.pendingTurnTimer = 0]

\* ------------------------------------------------------------- tool unlock
UnlockTools(w) ==
    IF w.s.toolsUnlocked THEN w
    ELSE [SendSessionUpdate(w, "tool_choice") EXCEPT !.s.toolsUnlocked = TRUE]

\* handleConversationItem sending the tool_choice update for every item of
\* the caller
HandleConversationItemRepeating(w, role) ==
    IF role = "user"
    THEN [SendSessionUpdate(w, "tool_choice")
            EXCEPT !.s.heardUser = TRUE, !.s.bargeGuardUntil = 0,
                   !.s.toolsUnlocked = TRUE]
    ELSE w

\* handleConversationItem: item.role
HandleConversationItem(w, role) ==
    IF role = "user" /\ ~w.s.heardUser
    THEN UnlockTools([w EXCEPT !.s.heardUser = TRUE, !.s.bargeGuardUntil = 0])
    ELSE w

\* logInputTranscript marking the caller heard without unlocking the tools
LogInputTranscriptNotUnlocking(w, hasText) ==
    IF hasText /\ ~w.s.heardUser
    THEN [w EXCEPT !.s.heardUser = TRUE, !.s.bargeGuardUntil = 0]
    ELSE w

\* logInputTranscript: hasText is getString(event.transcript) being a
\* non-empty string
LogInputTranscript(w, hasText) ==
    IF hasText /\ ~w.s.heardUser
    THEN UnlockTools([w EXCEPT !.s.heardUser = TRUE, !.s.bargeGuardUntil = 0])
    ELSE w

\* --------------------------------------------------------------- tool calls
\* registerFunctionCall without its test of heardUser
RegisterFunctionCallUnguarded(w, itemType, itemId, name, responseId) ==
    IF itemType = "function_call" /\ itemId # NoId /\ name # NoId
    THEN [w EXCEPT !.s.pendingTools =
             [x \in DOMAIN @ \cup {itemId} |->
                 IF x = itemId THEN [name |-> name, argsBuffer |-> <<>>]
                 ELSE @[x]]]
    ELSE w

\* registerFunctionCall: item.type, item.id, item.name, response.id
RegisterFunctionCall(w, itemType, itemId, name, responseId) ==
    IF itemType = "function_call" /\ itemId # NoId /\ name # NoId
    THEN IF ~w.s.heardUser
         THEN IF responseId # NoId
              THEN [WsSend(w, "response.cancel", responseId, 0, "")
                      EXCEPT !.s.activeResponses = @ \ {responseId}]
              ELSE w
         ELSE [w EXCEPT !.s.pendingTools =
                  [x \in DOMAIN @ \cup {itemId} |->
                      IF x = itemId THEN [name |-> name, argsBuffer |-> <<>>]
                      ELSE @[x]]]
    ELSE w

\* collectToolArgs putting the new fragment in front of the buffer
CollectToolArgsPrepending(w, itemId, delta) ==
    IF itemId = NoId THEN w
    ELSE IF itemId \notin DOMAIN w.s.pendingTools THEN w
    ELSE [w EXCEPT !.s.pendingTools[itemId].argsBuffer = delta \o @]

\* collectToolArgs opening an entry for an item that has none
CollectToolArgsCreating(w, itemId, delta) ==
    IF itemId = NoId THEN w
    ELSE [w EXCEPT !.s.pendingTools =
             [x \in DOMAIN @ \cup {itemId} |->
                 IF x \in DOMAIN @
                 THEN [@[x] EXCEPT !.argsBuffer =
                          IF x = itemId THEN @ \o delta ELSE @]
                 ELSE [name |-> NoId, argsBuffer |-> delta]]]

\* collectToolArgs: event.item_id, event.delta (<<>> when absent or empty)
CollectToolArgs(w, itemId, delta) ==
    IF itemId = NoId THEN w
    ELSE IF itemId \notin DOMAIN w.s.pendingTools THEN w
    ELSE IF Len(delta) > 0
    THEN [w EXCEPT !.s.pendingTools[itemId].argsBuffer = @ \o delta]
    ELSE w

\* JSON.parse of the argument text, {} on a parse failure or on blank text.
\* The fragment "o" is the text {"orderNumber":"ACME-12345"} and "r" the text
\* {"reason":"needs a human"}; "order" is the object {orderNumber: "ACME-12345"}, "reason" the object
\* {reason: "needs a human"}, "empty" the object {}.  "o1" and "o2" are the
\* two halves of "o", cut inside the key; "x" is text that is not JSON.
ParseArgs(payload) ==
    IF payload = <<"o">> \/ payload = <<"o1", "o2">> THEN "order"
    ELSE IF payload = <<"r">> THEN "reason"
    ELSE "empty"

\* fulfillToolCall dispatching without session.pendingTools.delete(itemId)
FulfillToolCallKeepingEntry(w, itemId, hasArguments, arguments, functionCallId) ==
    IF itemId = NoId THEN w
    ELSE IF itemId \notin DOMAIN w.s.pendingTools THEN w
    ELSE LET pending == w.s.pendingTools[itemId]
             argsPayload == IF hasArguments THEN arguments
                            ELSE pending.argsBuffer
             used == {r.slot : r \in w.runs}
             run == [slot |-> CHOOSE k \in 1..(Cardinality(used) + 1) :
                                  k \notin used,
                     sid |-> w.sid, itemId |-> itemId,
                     name |-> pending.name, args |-> ParseArgs(argsPayload),
                     callId |-> functionCallId]
         IN  [w EXCEPT !.runs = @ \cup {run}]

\* fulfillToolCall up to `await runTool(...)`: event.item_id, whether
\* event.arguments is a string and its text, event.call_id
FulfillToolCall(w, itemId, hasArguments, arguments, functionCallId) ==
    IF itemId = NoId THEN w
    ELSE IF itemId \notin DOMAIN w.s.pendingTools THEN w
    ELSE LET pending == w.s.pendingTools[itemId]
             argsPayload == IF hasArguments THEN arguments
                            ELSE pending.argsBuffer
             parsedArgs == ParseArgs(argsPayload)
             used == {r.slot : r \in w.runs}
             run == [slot |-> CHOOSE k \in 1..(Cardinality(used) + 1) :
                                  k \notin used,
                     sid |-> w.sid, itemId |-> itemId,
                     name |-> pending.name, args |-> parsedArgs,
                     callId |-> functionCallId]
         IN  [w EXCEPT !.s.pendingTools =
                          [x \in DOMAIN @ \ {itemId} |-> @[x]],
                       !.runs = @ \cup {run}]

\* runTool calling the handler without tool.schema.parse
RunToolUnvalidated(name, rawArgs) ==
    IF name \notin ToolTable THEN {"unsupported_tool"}
    ELSE IF name = "lookup_order" THEN {"ok"}
    ELSE {"ok", "handler_failed"}

\* tools.ts runTool(name, rawArgs, ctx): the ways the call can end.
\* lookupSchema wants orderNumber, handoffSchema wants reason; the
\* handoff_human handler fails when no SIP target is configured or the
\* refer request fails.
RunTool(name, rawArgs) ==
    IF name \notin ToolTable THEN {"unsupported_tool"}
    ELSE IF name = "lookup_order"
    THEN IF rawArgs = "order" THEN {"ok"} ELSE {"invalid_arguments"}
    ELSE IF rawArgs = "reason" THEN {"ok", "handler_failed"}
    ELSE {"invalid_arguments"}

\* tools.ts: whether the handler's result has followUpInstructions (every
\* handler of the table returns them)
HasFollowUpInstructions(name) == name \in ToolTable

SendFunctionResult(w, callId) ==
    WsSend(w, "conversation.item.create", callId, 0, "function_call_output")

\* fulfillToolCall sending the function result also after a failure
FulfillToolCallSettledAnswering(w, run, outcome) ==
    LET w0 == [w EXCEPT !.runs = @ \ {run}, !.nextReq = @ + 1]
        id == w.nextReq
        w1 == IF run.callId # NoId THEN SendFunctionResult(w0, run.callId)
              ELSE w0
    IN  IF outcome = "ok"
        THEN MaybeRespond(w1, [Request("tool_follow_up_success", id, TRUE)
                                  EXCEPT !.instructions = "followUpInstructions"])
        ELSE MaybeRespond(w1, Request("tool_follow_up_error", id, TRUE))

\* fulfillToolCall whose try block makes its request before the failure
\* surfaces, so that the catch block makes a second one
FulfillToolCallSettledTwice(w, run, outcome) ==
    LET w0 == [w EXCEPT !.runs = @ \ {run}, !.nextReq = @ + 1]
        id == w.nextReq
        w1 == MaybeRespond(w0, Request("tool_follow_up_success", id, TRUE))
    IN  IF outcome = "ok" THEN w1
        ELSE MaybeRespond(w1, Request("tool_follow_up_error", id, TRUE))

\* fulfillToolCall from the point where runTool has settled: the rest of
\* the try block when it returned, the catch block when it threw.  The
\* follow-up request gets the next serial number as its identity.
FulfillToolCallSettled(w, run, outcome) ==
    LET w0 == [w EXCEPT !.runs = @ \ {run}, !.nextReq = @ + 1]
        id == w.nextReq
    IN  IF outcome = "ok"
        THEN LET w1 == IF run.callId # NoId
                       THEN SendFunctionResult(w0, run.callId)
                       ELSE w0
                 followUp == IF HasFollowUpInstructions(run.name)
                             THEN "followUpInstructions"
                             ELSE Prompt("tool_follow_up_success")
             IN  MaybeRespond(w1, [Request("tool_follow_up_success", id, TRUE)
                                      EXCEPT !.instructions = followUp])
        ELSE MaybeRespond(w0, Request("tool_follow_up_error", id, TRUE))

\* ws.on('open')
OnWsOpen(w) ==
    LET w1 == SendSessionUpdate(w, "audio")
    IN  IF ~w1.s.greeted
        THEN [MaybeRespond(w1, Request("greeting", 0, FALSE))
                EXCEPT !.s.greeted = TRUE,
                       !.s.bargeGuardUntil = now + BargeGuardMs]
        ELSE w1

\* a 'session.updated' handler that greets on the acknowledgement
OnSessionUpdatedGreeting(w) ==
    MaybeRespond([w EXCEPT !.s.configured = TRUE], Request("greeting", 0, FALSE))

\* realtimeEventHandlers['session.updated']
OnSessionUpdated(w) == [w EXCEPT !.s.configured = TRUE]

\* ------------------------------------------------------------------ state
\* ---------------------------------------------------------- event routing
\* What a message of the channel can be when no entry of the handler table
\* is meant for it: text that is not JSON, JSON that is no object, an object
\* whose type is no string, a type that names nothing ("rate_limits.updated"),
\* and a type that names a member the table object inherits from
\* Object.prototype: one that returns when called as handler(session, event)
\* ("toString"), and one that throws a TypeError ("hasOwnProperty", called
\* with no receiver; "__proto__", no function).
MessageKinds == {"not_json", "not_object", "no_type", "unlisted_type",
                 "inherited_returns", "inherited_throws"}

\* the 'message' listener and routeRealtimeEvent for such a message: the
\* session after it, and whether the listener's promise was rejected
RouteRealtimeEvent(w, kind) ==
    IF kind \in {"not_json", "not_object"}
    THEN [w |-> w, rejected |-> FALSE]       \* the listener returns
    ELSE IF kind \in {"no_type", "unlisted_type"}
    THEN [w |-> w, rejected |-> FALSE]       \* routeRealtimeEvent returns
    ELSE [w |-> w, rejected |-> kind = "inherited_throws"]

\* ------------------------------------------------------------- call intake
\* error.param values an 'error' event can carry (NoId: none), and those of
\* them for which param.includes('voice') is true
ErrorParams == {NoId, "session.audio.output.voice", "session.voice"}
VoiceParams == {"session.audio.output.voice", "session.voice"}
ErrorCodes == {"unknown_parameter", "invalid_request_error", "server_error"}

\* handleRealtimeError: error.code, error.param
HandleRealtimeError(w, code, param) ==
    IF /\ code \in {"unknown_parameter", "invalid_request_error"}
       /\ param # NoId
       /\ param \in VoiceParams
    THEN SendSessionUpdate(w, "voice")
    ELSE w

EventTypes == {"realtime.call.incoming", "unknown"}

\* the webhook scheduling handleIncomingCall for every verified event with
\* a call id
WebhookTakingAnyType(unwrapOk, eventType, callId) ==
    IF ~unwrapOk THEN [status |-> 400, schedule |-> FALSE]
    ELSE IF callId = NoId
    THEN [status |-> IF eventType = "realtime.call.incoming" THEN 400 ELSE 200,
          schedule |-> FALSE]
    ELSE [status |-> 200, schedule |-> TRUE]

\* app.post('/openai/webhook'): whether unwrap / JSON.parse returned, the
\* event's type ('unknown' when absent or the payload is no record) and
\* data.call_id (NoId when absent or empty).  The result is the status of
\* the response and whether handleIncomingCall was scheduled.
Webhook(unwrapOk, eventType, callId) ==
    IF ~unwrapOk THEN [status |-> 400, schedule |-> FALSE]
    ELSE IF eventType = "realtime.call.incoming"
    THEN IF callId = NoId
         THEN [status |-> 400, schedule |-> FALSE]
         ELSE [status |-> 200, schedule |-> TRUE]
    ELSE [status |-> 200, schedule |-> FALSE]

\* callflow.ts acceptCall: the ways the request can end ("ok", or an Error
\* whose message holds the response text)
AcceptOutcomes == {"ok", "call_id_not_found", "conflict"}

\* handleIncomingCall attaching whatever acceptCall's outcome
HandleIncomingCallAttachingAlways(outcome) == "attached"

\* handleIncomingCall from the return of `await acceptCall`: "attached" (it
\* went on to attachSidebandWebSocket), "skipped" (it returned in the catch
\* block), "threw" (it rethrew; the webhook's .catch logs the error)
HandleIncomingCall(outcome) ==
    IF outcome = "ok" THEN "attached"
    ELSE IF outcome = "call_id_not_found" THEN "skipped"
    ELSE "threw"

InitState ==
    /\ registry = [c \in CallIds |-> 0]
    /\ sess = [i \in SessIds |-> Unbuilt]
    /\ timers = {}
    /\ runs = {}
    /\ nextReq = 1
    /\ intakes = [c \in CallIds |-> [scheduled |-> 0, accepting |-> 0]]
    /\ http = 0
    /\ notified = [c \in CallIds |-> 0]
    /\ lastIntake = NoId
    /\ voiceRetries = [i \in SessIds |-> 0]
    /\ alive = TRUE
    /\ out = <<>>
    /\ reqs = <<>>
    /\ sentSet = [i \in SessIds |-> {}]
    /\ queuedSet = [i \in SessIds |-> {}]
    /\ madeSet = [i \in SessIds |-> {}]
    /\ awaiting = [i \in SessIds |-> 0]
    /\ openResps = [i \in SessIds |-> {}]
    /\ greetings = [i \in SessIds |-> 0]
    /\ settled = 0

Creates(o) == SelectSeq(o, LAMBDA m : m.type = "response.create")
Cancels(o) == SelectSeq(o, LAMBDA m : m.type = "response.cancel")

\* a value not computed yet
Pending == <<"pending">>

\* the helpers have not been given anything
PhoneIdle ==
    /\ sipHeaders = <<>>
    /\ callerPhone = Pending

\* no event has been logged yet
NotLogged == <<[by |-> "nothing", text |-> <<>>]>>

LogIdle ==
    /\ usePrettyLogs = FALSE
    /\ transcript = <<>>
    /\ logLines = NotLogged

AnalyticsIdle ==
    /\ callMetrics = <<>>
    /\ wallClock = 0
    /\ swept = {}

AuxIdle == PhoneIdle /\ LogIdle /\ AnalyticsIdle

Init == InitState /\ tracked = FALSE /\ AuxIdle

\* The step's result: the handler's work record w becomes the next state
\* (handlers run while the process does).
\* created, done: the response ids the handled event announced as created
\* and as completed.  The history variables are computed from what was
\* sent, requested and queued, not from the handler's branches.
Commit(w, created, done) ==
    /\ alive
    /\ sess' = [sess EXCEPT ![w.sid] = w.s]
    /\ timers' = w.timers
    /\ runs' = w.runs
    /\ nextReq' = w.nextReq
    /\ out' = w.out
    /\ reqs' = w.reqs
    /\ sentSet' = [sentSet EXCEPT ![w.sid] = @ \cup
          {m.req : m \in {x \in Range(Creates(w.out)) : x.req # 0 /\ x.delivered}}]
    /\ queuedSet' = [queuedSet EXCEPT ![w.sid] =
          @ \cup {r.id : r \in Range(w.s.pendingFollowUps)}]
    /\ madeSet' = [madeSet EXCEPT ![w.sid] = @ \cup
          {r.id : r \in {x \in Range(w.reqs) : x.queueIfBlocked}}]
    /\ awaiting' = [awaiting EXCEPT ![w.sid] =
          LET n == (IF created # {} /\ @ > 0 THEN @ - 1 ELSE @)
                   + Cardinality({k \in DOMAIN w.out :
                        w.out[k].type = "response.create" /\ w.out[k].delivered})
          IN  IF ~tracked THEN @ ELSE IF n > MaxReq + 2 THEN MaxReq + 2 ELSE n]
    /\ openResps' = [openResps EXCEPT ![w.sid] =
          ((@ \cup created) \ done) \ {m.ref : m \in Range(Cancels(w.out))}]
    /\ greetings' = [greetings EXCEPT ![w.sid] =
          LET n == @ + Len(SelectSeq(w.reqs, LAMBDA r : r.source = "greeting"))
          IN  IF n > 2 THEN 2 ELSE n]
    /\ settled' = IF w.nextReq # nextReq THEN nextReq ELSE 0
    /\ voiceRetries' = [voiceRetries EXCEPT ![w.sid] =
          LET n == @ + Len(SelectSeq(w.out, LAMBDA m :
                          m.type = "session.update" /\ m.source = "voice"))
          IN  IF n > 2 THEN 2 ELSE n]
    /\ UNCHANGED <<registry, tracked, auxVars, alive, intakeVars>>

\* ---------------------------------------------------------------- actions
\* handleIncomingCall after acceptCall succeeded: attachSidebandWebSocket
\* constructs the session object sid and registers it under callId
AttachSidebandWebSocket(callId, sid) ==
    /\ sess[sid].ws = "none"
    /\ \A j \in SessIds : j < sid => sess[j].ws # "none"
    /\ sess' = [sess EXCEPT ![sid] = NewSession(callId)]
    /\ registry' = [registry EXCEPT ![callId] = sid]
    /\ out' = <<>>
    /\ reqs' = <<>>
    /\ settled' = 0
    /\ UNCHANGED <<timers, runs, nextReq, sentSet, queuedSet, madeSet,
                   tracked, auxVars, alive, awaiting, openResps, greetings, voiceRetries>>

\* the call was accepted and handleIncomingCall goes on to attach
CallAccepted(callId, sid) ==
    /\ alive
    /\ AttachSidebandWebSocket(callId, sid)
    /\ UNCHANGED intakeVars

WsOpen(sid) ==
    /\ sess[sid].ws = "connecting"
    /\ Commit(OnWsOpen([Work(sid) EXCEPT !.s.ws = "open"]), {}, {})

\* ws.on('close') with sessions.delete left out
WsCloseKeepingEntry(sid) ==
    /\ sess[sid].ws \in {"connecting", "open", "errored"}
    /\ sess' = [sess EXCEPT ![sid].ws = "closed"]
    /\ out' = <<>>
    /\ reqs' = <<>>
    /\ settled' = 0
    /\ UNCHANGED <<registry, timers, runs, nextReq, sentSet, queuedSet, madeSet,
                   tracked, auxVars, alive, awaiting, openResps, greetings, voiceRetries,
                   intakeVars>>

\* ws.on('close'): the socket has closed, after an error or without one
WsClose(sid) ==
    /\ sess[sid].ws \in {"connecting", "open", "errored"}
    /\ sess' = [sess EXCEPT ![sid].ws = "closed"]
    /\ registry' = [registry EXCEPT ![sess[sid].callId] = 0]
    /\ out' = <<>>
    /\ reqs' = <<>>
    /\ settled' = 0
    /\ UNCHANGED <<timers, runs, nextReq, sentSet, queuedSet, madeSet,
                   tracked, auxVars, alive, awaiting, openResps, greetings, voiceRetries,
                   intakeVars>>

\* ws.on('error'): the socket failed (connection refused, abort by the
\* remote end, protocol error); the handler only logs, the socket is
\* closing and its 'close' event follows
WsError(sid) ==
    /\ sess[sid].ws \in {"connecting", "open"}
    /\ sess' = [sess EXCEPT ![sid].ws = "errored"]
    /\ out' = <<>>
    /\ reqs' = <<>>
    /\ settled' = 0
    /\ UNCHANGED <<registry, timers, runs, nextReq, sentSet, queuedSet, madeSet,
                   tracked, auxVars, alive, awaiting, openResps, greetings, voiceRetries,
                   intakeVars>>

\* call-incoming notifications taken in so far
Notifications == notified["call_1"] + notified["call_2"]

\* POST /openai/webhook
WebhookPost(unwrapOk, eventType, callId) ==
    LET r == Webhook(unwrapOk, eventType, callId)
    IN  /\ r.schedule => Notifications < MaxNotify
        /\ http' = r.status
        /\ intakes' = IF r.schedule
                      THEN [intakes EXCEPT ![callId].scheduled = @ + 1]
                      ELSE intakes
        /\ notified' = IF r.schedule
                       THEN [notified EXCEPT ![callId] = @ + 1]
                       ELSE notified
        /\ out' = <<>>
        /\ reqs' = <<>>
        /\ settled' = 0
        /\ UNCHANGED <<registry, sess, timers, runs, nextReq, sentSet,
                       queuedSet, madeSet, tracked, auxVars, alive, awaiting, openResps,
                       greetings, voiceRetries, lastIntake>>

\* the setTimeout(..., 0) callback of the webhook: handleIncomingCall runs
\* up to `await acceptCall(...)`, the accept request is under way
IncomingCallStarts(callId) ==
    /\ intakes[callId].scheduled > 0
    /\ intakes' = [intakes EXCEPT ![callId].scheduled = @ - 1,
                                  ![callId].accepting = @ + 1]
    /\ out' = <<>>
    /\ reqs' = <<>>
    /\ settled' = 0
    /\ UNCHANGED <<registry, sess, timers, runs, nextReq, sentSet,
                   queuedSet, madeSet, tracked, auxVars, alive, awaiting, openResps,
                   greetings, voiceRetries, http, notified, lastIntake>>

\* acceptCall settles and the suspended handleIncomingCall continues
AcceptSettled(callId, outcome) ==
    /\ intakes[callId].accepting > 0
    /\ intakes' = [intakes EXCEPT ![callId].accepting = @ - 1]
    /\ lastIntake' = HandleIncomingCall(outcome)
    /\ IF HandleIncomingCall(outcome) = "attached"
       THEN \E sid \in SessIds : AttachSidebandWebSocket(callId, sid)
       ELSE /\ out' = <<>>
            /\ reqs' = <<>>
            /\ settled' = 0
            /\ UNCHANGED <<registry, sess, timers, runs, nextReq, sentSet,
                           queuedSet, madeSet, tracked, auxVars, alive, awaiting, openResps,
                           greetings, voiceRetries>>
    /\ UNCHANGED <<http, notified>>

\* 'error'
RealtimeError(sid, code, param) ==
    /\ sess[sid].ws = "open"
    /\ Commit(HandleRealtimeError(Work(sid), code, param), {}, {})

\* ws.on('message') for a message no handler is meant for.  Nothing awaits
\* or catches the listener's promise: when it is rejected the rejection is
\* unhandled, and the runtime either reports it and goes on (survives) or
\* ends the process.
UnhandledMessage(sid, kind, survives) ==
    LET r == RouteRealtimeEvent(Work(sid), kind)
    IN  /\ alive
        /\ sess[sid].ws = "open"
        /\ ~r.rejected => survives
        /\ sess' = [sess EXCEPT ![sid] = r.w.s]
        /\ out' = r.w.out
        /\ reqs' = r.w.reqs
        /\ settled' = 0
        /\ alive' = survives
        /\ UNCHANGED <<registry, timers, runs, nextReq, sentSet, queuedSet,
                       madeSet, tracked, auxVars, awaiting, openResps, greetings,
                       voiceRetries, intakeVars>>

\* ws.on('message') -> routeRealtimeEvent -> realtimeEventHandlers[type]
SessionUpdated(sid) ==
    /\ sess[sid].ws = "open"
    /\ Commit(OnSessionUpdated(Work(sid)), {}, {})

ResponseCreated(sid, responseId) ==
    /\ sess[sid].ws = "open"
    /\ Commit(UpdateResponseLifecycle(Work(sid), responseId, "add"),
              {responseId} \ {NoId}, {})

\* 'response.completed' and 'response.done'
ResponseDone(sid, responseId) ==
    /\ sess[sid].ws = "open"
    /\ Commit(UpdateResponseLifecycle(Work(sid), responseId, "remove"),
              {}, {responseId} \ {NoId})

SpeechStarted(sid) ==
    /\ sess[sid].ws = "open"
    /\ Commit(HandleSpeechStarted(Work(sid)), {}, {})

SpeechStopped(sid) ==
    /\ sess[sid].ws = "open"
    /\ Commit(HandleSpeechStopped(Work(sid)), {}, {})

\* 'conversation.item.added' / '.done' / '.created' / '.retrieved'
ConversationItem(sid, role) ==
    /\ sess[sid].ws = "open"
    /\ Commit(HandleConversationItem(Work(sid), role), {}, {})

\* 'conversation.item.input_audio_transcription.completed' and its alias
InputTranscript(sid, hasText) ==
    /\ sess[sid].ws = "open"
    /\ Commit(LogInputTranscript(Work(sid), hasText), {}, {})

\* 'response.output_item.added'
OutputItemAdded(sid, itemType, itemId, name, responseId) ==
    /\ sess[sid].ws = "open"
    /\ Commit(RegisterFunctionCall(Work(sid), itemType, itemId, name, responseId),
              {}, {})

\* 'response.function_call_arguments.delta'
ArgumentsDelta(sid, itemId, delta) ==
    /\ sess[sid].ws = "open"
    /\ itemId \in DOMAIN sess[sid].pendingTools =>
          Len(sess[sid].pendingTools[itemId].argsBuffer) + Len(delta) <= MaxArgLen
    /\ Commit(CollectToolArgs(Work(sid), itemId, delta), {}, {})

\* 'response.function_call_arguments.delta' carrying one piece of a text
\* that is streamed in pieces
ArgumentsFragment(sid, itemId, delta) ==
    /\ sess[sid].ws = "open"
    /\ itemId \in DOMAIN sess[sid].pendingTools =>
          Len(sess[sid].pendingTools[itemId].argsBuffer) < MaxFrags
    /\ Commit(CollectToolArgs(Work(sid), itemId, delta), {}, {})

\* 'response.function_call_arguments.done', up to the await of runTool
ArgumentsDone(sid, itemId, hasArguments, arguments, functionCallId) ==
    /\ sess[sid].ws = "open"
    /\ itemId \in DOMAIN sess[sid].pendingTools =>
          /\ nextReq + Cardinality(runs) <= MaxReq
          /\ Cardinality(runs) < MaxRuns
    /\ Commit(FulfillToolCall(Work(sid), itemId, hasArguments, arguments,
                              functionCallId), {}, {})

\* runTool settles and the suspended fulfillToolCall continues
ToolSettled(run, outcome) ==
    /\ run \in runs
    /\ outcome \in RunTool(run.name, run.args)
    /\ Commit(FulfillToolCallSettled(Work(run.sid), run, outcome), {}, {})

\* the turn timer's callback runs, not before its delay has passed
TurnTimerFires(t) ==
    /\ t \in timers
    /\ now >= t.due
    /\ Commit(TurnTimerCallback(Work(t.sid), t.id), {}, {})

\* a time stored by the program lies ahead of the clock
DeadlineAhead ==
    \/ \E i \in SessIds : \/ now < sess[i].responseGateUntil
                           \/ now < sess[i].bargeGuardUntil
    \/ \E t \in timers : now < t.due

\* a stored time after the clock has advanced by TickMs
Later(time) == IF time > now + TickMs THEN time - TickMs ELSE now

\* Date.now() advances by TickMs.  Only the comparisons of the clock with
\* the stored times are observed, so it advances only while one lies ahead.
Tick ==
    /\ DeadlineAhead
    /\ sess' = [i \in SessIds |->
                  [sess[i] EXCEPT !.responseGateUntil = Later(@),
                                  !.bargeGuardUntil = Later(@)]]
    /\ timers' = {[t EXCEPT !.due = Later(@)] : t \in timers}
    /\ out' = <<>>
    /\ reqs' = <<>>
    /\ settled' = 0
    /\ UNCHANGED <<registry, runs, nextReq, sentSet, queuedSet, madeSet,
                   tracked, auxVars, alive, awaiting, openResps, greetings, voiceRetries,
                   intakeVars>>

\* ------------------------------------------------------- the single call
\* One call, one session object, and the events its channel can carry.
CoreSess == {1}
CoreCall == "call_1"
CoreItem == "item_1"
CoreTools == {"handoff_human", "unknown_tool"}

Next ==
    \/ CallAccepted(CoreCall, 1)
    \/ \E sid \in CoreSess : WsOpen(sid)
    \/ \E sid \in CoreSess : WsClose(sid)
    \/ \E sid \in CoreSess : SessionUpdated(sid)
    \/ \E sid \in CoreSess, r \in ResponseIds : ResponseCreated(sid, r)
    \/ \E sid \in CoreSess, r \in ResponseIds : ResponseDone(sid, r)
    \/ \E sid \in CoreSess : SpeechStarted(sid)
    \/ \E sid \in CoreSess : SpeechStopped(sid)
    \/ \E sid \in CoreSess, role \in {"user", "assistant"} :
          ConversationItem(sid, role)
    \/ \E sid \in CoreSess, hasText \in BOOLEAN : InputTranscript(sid, hasText)
    \/ \E sid \in CoreSess, n \in CoreTools, r \in ResponseIds \cup {NoId} :
          OutputItemAdded(sid, "function_call", CoreItem, n, r)
    \/ \E sid \in CoreSess : ArgumentsDelta(sid, CoreItem, <<"r">>)
    \/ \E sid \in CoreSess : ArgumentsDone(sid, CoreItem, FALSE, <<>>, "fc_1")
    \/ \E run \in runs, o \in {"ok", "unsupported_tool", "invalid_arguments",
                               "handler_failed"} : ToolSettled(run, o)
    \/ \E t \in timers : TurnTimerFires(t)
    \/ Tick

Spec == Init /\ [][Next]_vars

\* ---------------------------------------------- calls from notification on
CallNext ==
    \/ \E unwrapOk \in BOOLEAN, eventType \in EventTypes,
          callId \in CallIds \cup {NoId} :
          WebhookPost(unwrapOk, eventType, callId)
    \/ \E callId \in CallIds : IncomingCallStarts(callId)
    \/ \E callId \in CallIds, outcome \in AcceptOutcomes :
          AcceptSettled(callId, outcome)
    \/ \E sid \in SessIds : WsOpen(sid)
    \/ \E sid \in SessIds : WsError(sid)
    \/ \E sid \in SessIds : WsClose(sid)
    \/ \E sid \in SessIds, code \in ErrorCodes, param \in ErrorParams :
          RealtimeError(sid, code, param)

CallSpec == Init /\ [][CallNext]_vars

\* ------------------------------------------ a call and stray messages
RouteNext ==
    \/ CallAccepted(CoreCall, 1)
    \/ \E sid \in CoreSess : WsOpen(sid)
    \/ \E sid \in CoreSess : SessionUpdated(sid)
    \/ \E sid \in CoreSess, r \in ResponseIds : ResponseCreated(sid, r)
    \/ \E sid \in CoreSess, r \in ResponseIds : ResponseDone(sid, r)
    \/ \E sid \in CoreSess : SpeechStarted(sid)
    \/ \E sid \in CoreSess : SpeechStopped(sid)
    \/ \E sid \in CoreSess : ConversationItem(sid, "user")
    \/ \E t \in timers : TurnTimerFires(t)
    \/ Tick
    \/ \E sid \in CoreSess, kind \in MessageKinds, survives \in BOOLEAN :
          UnhandledMessage(sid, kind, survives)

RouteSpec == Init /\ [][RouteNext]_vars

\* ------------------------------------------- tool calls with streamed text
\* the argument texts a done event can carry: the empty text, text that is
\* not JSON, and {"reason":"needs a human"}
DoneTexts == {<<>>, <<"x">>, <<"r">>}

ToolNext ==
    \/ CallAccepted(CoreCall, 1)
    \/ \E sid \in CoreSess : WsOpen(sid)
    \/ \E sid \in CoreSess : ConversationItem(sid, "user")
    \/ \E sid \in CoreSess, n \in ToolTable :
          OutputItemAdded(sid, "function_call", CoreItem, n, NoId)
    \/ \E sid \in CoreSess, f \in {"o1", "o2"} :
          ArgumentsFragment(sid, CoreItem, <<f>>)
    \/ \E sid \in CoreSess, hasArguments \in BOOLEAN, arguments \in DoneTexts,
          functionCallId \in {"fc_1", NoId} :
          ArgumentsDone(sid, CoreItem, hasArguments, arguments, functionCallId)
    \/ \E run \in runs, o \in {"ok", "invalid_arguments", "handler_failed"} :
          ToolSettled(run, o)
    \/ Tick

ToolSpec == Init /\ [][ToolNext]_vars

\* ------------------------------------------------- two calls side by side
\* Two calls with their own identifiers, each with its session object, and
\* the events, timers and tool completions of both in any interleaving.
PairSess == {1, 2}

\* the call identifier the session object sid is constructed for
PairCall(sid) == IF sid = 1 THEN "call_1" ELSE "call_2"

\* the handlers of one session's channel and its timers
SessionStep(sid) ==
    \/ WsOpen(sid)
    \/ SessionUpdated(sid)
    \/ ConversationItem(sid, "user")
    \/ SpeechStarted(sid)
    \/ SpeechStopped(sid)
    \/ \E t \in timers : t.sid = sid /\ TurnTimerFires(t)

\* a tool call on one session's channel and its completion
ToolStep(sid) ==
    \/ OutputItemAdded(sid, "function_call", CoreItem, "handoff_human", NoId)
    \/ ArgumentsDone(sid, CoreItem, TRUE, <<"r">>, "fc_1")
    \/ \E run \in runs : run.sid = sid /\ ToolSettled(run, "ok")

\* the model of the first call uses a tool, the second call's does not
PairNext ==
    \/ \E sid \in PairSess : CallAccepted(PairCall(sid), sid)
    \/ \E sid \in PairSess : SessionStep(sid)
    \/ ToolStep(1)
    \/ \E sid \in PairSess : WsClose(sid)
    \/ Tick

PairSpec == Init /\ [][PairNext]_vars

\* ------------------------------------------------ the caller's phone number
\* utils.ts extractCallerPhone.  A header entry is [kind, name, value]:
\* kind is what the entry is ("object" for a record; a string, null and the
\* like are no records), name is its name when that is a string (NoId
\* otherwise), value is its value.  A value is [isString, text]; the text of
\* a string is a sequence of pieces: the literal "sip:", a plus sign, a
\* digit ("7"), the at sign, and any other character ("x").
SipChars == {"sip:", "+", "7", "@", "x"}

NoString == [isString |-> FALSE, text |-> <<>>]
Str(text) == [isString |-> TRUE, text |-> text]

\* phoneMatch?.[1] === undefined
Undefined == <<>>

IsRecord(h) == h.kind = "object"

\* String.prototype.toLowerCase on the header names used
ToLowerCase(name) ==
    IF name = "From" THEN "from"
    ELSE IF name = "To" THEN "to"
    ELSE name

\* \d+ from position q on: the number of digits the greedy quantifier takes
RECURSIVE DigitRun(_, _)
DigitRun(v, q) ==
    IF q <= Len(v) /\ v[q] = "7" THEN 1 + DigitRun(v, q + 1) ELSE 0

\* SIP_PHONE_REGEX = /sip:(\+?\d+)@/ tried at position p: whether it matches
\* there and its capture group.  (Taking fewer digits or skipping the plus
\* sign cannot make a failed attempt succeed: what follows would be a digit
\* or the plus sign, not the at sign.)
SipPhoneAt(v, p) ==
    LET q == IF p + 1 <= Len(v) /\ v[p + 1] = "+" THEN p + 2 ELSE p + 1
        n == DigitRun(v, q)
    IN  [ok |-> v[p] = "sip:" /\ n >= 1 /\ q + n <= Len(v) /\ v[q + n] = "@",
         group |-> SubSeq(v, p + 1, q + n - 1)]

\* fromValue.match(SIP_PHONE_REGEX)?.[1]: the group of the leftmost match
SipPhoneMatch(v) ==
    LET starts == {p \in DOMAIN v : SipPhoneAt(v, p).ok}
    IN  IF starts = {} THEN Undefined
        ELSE SipPhoneAt(v, CHOOSE p \in starts : \A r \in starts : p <= r).group

\* extractCallerPhone comparing the header name as it is written
ExtractCallerPhoneExactName(headers) ==
    LET found == {k \in DOMAIN headers :
                     IsRecord(headers[k]) /\ headers[k].name = "from"}
    IN  IF found = {} THEN Undefined
        ELSE LET fromHeader == headers[CHOOSE k \in found :
                                          \A r \in found : k <= r]
             IN  IF ~fromHeader.value.isString THEN Undefined
                 ELSE SipPhoneMatch(fromHeader.value.text)

\* extractCallerPhone(sipHeaders): sipHeaders.find(...), then the match
ExtractCallerPhone(headers) ==
    LET found == {k \in DOMAIN headers :
                     /\ IsRecord(headers[k])
                     /\ headers[k].name # NoId
                     /\ ToLowerCase(headers[k].name) = "from"}
    IN  IF found = {} THEN Undefined
        ELSE LET fromHeader == headers[CHOOSE k \in found :
                                          \A r \in found : k <= r]
             IN  IF ~fromHeader.value.isString THEN Undefined
                 ELSE SipPhoneMatch(fromHeader.value.text)

\* header lists: any list of up to MaxHeaders entries whose values are a few
\* chosen ones, and a single From header with any text of up to MaxValueLen
\* pieces
HeaderNames == {"From", "from", "To", NoId}
SampleValues == {NoString, Str(<<"sip:", "+", "7", "@">>),
                 Str(<<"sip:", "7", "@">>), Str(<<"x">>)}
HeaderEntries ==
    {[kind |-> k, name |-> NoId, value |-> NoString] : k \in {"string", "null"}}
    \cup {[kind |-> "object", name |-> n, value |-> v] :
              n \in HeaderNames, v \in SampleValues}
HeaderLists == UNION {[1..k -> HeaderEntries] : k \in 0..MaxHeaders}
FromTexts == UNION {[1..k -> SipChars] : k \in 0..MaxValueLen}
SipHeaderInputs ==
    HeaderLists
    \cup {<<[kind |-> "object", name |-> "From", value |-> Str(t)]>> :
             t \in FromTexts}

PhoneInit ==
    /\ InitState
    /\ tracked = FALSE
    /\ sipHeaders \in SipHeaderInputs
    /\ callerPhone = Pending
    /\ LogIdle
    /\ AnalyticsIdle

\* the webhook: const callerPhone = extractCallerPhone(sipHeaders)
ReadCallerPhone ==
    /\ callerPhone = Pending
    /\ callerPhone' = ExtractCallerPhone(sipHeaders)
    /\ UNCHANGED <<coreVars, sipHeaders, logVars, analyticsVars>>

PhoneSpec == PhoneInit /\ [][ReadCallerPhone]_vars

\* ---------------------------------------------------- logging a transcript
\* A transcript is a sequence of pieces: a word, an e-mail address
\* ("user@example.com"), a phone number of eight characters or more
\* ("+1 (555) 123-4567"), and a number of fewer than eight characters
\* ("5551234").  Redacted is the text [REDACTED].
Pieces == {"word", "email", "phone", "short_number"}
Redacted == "[REDACTED]"

\* observe.ts redactPII: emailRegex matches an e-mail address; phoneRegex
\* /\+?\d[\d().\-\s]{6,}\d/ matches a run of at least eight characters
\* that begins and ends with a digit
RedactPII(value) ==
    [k \in DOMAIN value |->
        IF value[k] \in {"email", "phone"} THEN Redacted ELSE value[k]]

\* truncate(value, 160): the transcripts of the model are shorter than that
Truncate(value) == value

\* a line written to the console: what wrote it and the text it holds
LogLine(by, text) == [by |-> by, text |-> text]

\* observe.ts logTranscript
LogTranscript(pretty, text) ==
    IF pretty THEN <<>> ELSE <<LogLine("logTranscript", RedactPII(text))>>

\* observe.ts logCallLifecycle(callId, 'transcript_completed', {text})
LogCallLifecycle(pretty, text) ==
    IF pretty THEN <<>> ELSE <<LogLine("logCallLifecycle", text)>>

\* logger.ts Logger.transcript -> log: written in either format
LoggerTranscript(pretty, text) == <<LogLine("logger.transcript", text)>>

\* logInputTranscript: the lines it writes for event.transcript
TranscriptLogLines(pretty, text) ==
    IF Len(text) = 0 THEN <<>>
    ELSE LogTranscript(pretty, text)
         \o LogCallLifecycle(pretty, Truncate(text))
         \o LoggerTranscript(pretty, text)

TranscriptInputs == UNION {[1..k -> Pieces] : k \in 0..MaxPieces}

LogInit ==
    /\ InitState
    /\ tracked = FALSE
    /\ PhoneIdle
    /\ AnalyticsIdle
    /\ usePrettyLogs \in BOOLEAN
    /\ transcript \in TranscriptInputs
    /\ logLines = NotLogged

\* 'conversation.item.input_audio_transcription.completed' arrives and
\* logInputTranscript writes its lines
LogsTranscript ==
    /\ logLines = NotLogged
    /\ logLines' = TranscriptLogLines(usePrettyLogs, transcript)
    /\ UNCHANGED <<coreVars, phoneVars, usePrettyLogs, transcript, analyticsVars>>

LogSpec == LogInit /\ [][LogsTranscript]_vars

\* ------------------------------------------------------- call analytics
\* analytics.ts AnalyticsEngine: callMetrics is a Map from call id to the
\* call's metrics; of the metrics the model keeps startTime and status.  The
\* Map is the sequence of its entries in insertion order (the order its
\* iteration and a stable sort see).
CallKeys == 1..MaxCallKeys

\* the position of call id's entry, 0 when the Map has none
EntryOf(m, id) ==
    IF \E k \in DOMAIN m : m[k].callId = id
    THEN CHOOSE k \in DOMAIN m : m[k].callId = id
    ELSE 0

\* startCall(callId): Map.set of a fresh metrics record; an entry that
\* exists keeps its place in the order
StartCall(m, id, time) ==
    LET metrics == [callId |-> id, startTime |-> time, status |-> "active"]
    IN  IF EntryOf(m, id) # 0 THEN [m EXCEPT ![EntryOf(m, id)] = metrics]
        ELSE Append(m, metrics)

\* endCall(callId, status)
EndCall(m, id, status) ==
    IF EntryOf(m, id) = 0 THEN m
    ELSE [m EXCEPT ![EntryOf(m, id)].status = status]

\* the place of entry k in allCalls: the calls that are not active, sorted
\* by startTime, latest first, entries of equal startTime in Map order
PlaceInAllCalls(m, k) ==
    Cardinality({j \in DOMAIN m :
        /\ m[j].status # "active"
        /\ \/ m[j].startTime > m[k].startTime
           \/ (m[j].startTime = m[k].startTime /\ j < k)})

\* cleanupOldCalls deleting from all calls, the active ones included
CleanupOldCallsOfAnyStatus(m) ==
    LET place(k) == Cardinality({j \in DOMAIN m :
                        \/ m[j].startTime > m[k].startTime
                        \/ (m[j].startTime = m[k].startTime /\ j < k)})
    IN  SelectSeq([k \in DOMAIN m |-> [e |-> m[k], keep |-> place(k) < KeepCalls]],
                  LAMBDA x : x.keep)

\* cleanupOldCalls(): allCalls.slice(KeepCalls) is deleted from the Map.
\* The result pairs each remaining entry with keep = TRUE.
CleanupOldCalls(m) ==
    SelectSeq([k \in DOMAIN m |->
                  [e |-> m[k],
                   keep |-> \/ m[k].status = "active"
                            \/ PlaceInAllCalls(m, k) < KeepCalls]],
              LAMBDA x : x.keep)

\* the entries of a cleanup's result
Entries(r) == [k \in DOMAIN r |-> r[k].e]

CallIdsOf(m) == {m[k].callId : k \in DOMAIN m}

AnalyticsInit ==
    /\ InitState
    /\ tracked = FALSE
    /\ PhoneIdle
    /\ LogIdle
    /\ AnalyticsIdle

\* analytics.startCall(callId) at the present reading of the clock
StartsCall(id) ==
    /\ callMetrics' = StartCall(callMetrics, id, wallClock)
    /\ swept' = {}
    /\ UNCHANGED <<coreVars, phoneVars, logVars, wallClock>>

\* analytics.endCall(callId, status)
EndsCall(id, status) ==
    /\ callMetrics' = EndCall(callMetrics, id, status)
    /\ swept' = {}
    /\ UNCHANGED <<coreVars, phoneVars, logVars, wallClock>>

\* the hourly setInterval callback: analytics.cleanupOldCalls()
CleansUp ==
    /\ callMetrics' = Entries(CleanupOldCalls(callMetrics))
    /\ swept' = CallIdsOf(callMetrics) \ CallIdsOf(callMetrics')
    /\ UNCHANGED <<coreVars, phoneVars, logVars, wallClock>>

\* Date.now() advances
ClockAdvances ==
    /\ wallClock < MaxClock
    /\ wallClock' = wallClock + 1
    /\ swept' = {}
    /\ UNCHANGED <<coreVars, phoneVars, logVars, callMetrics>>

AnalyticsNext ==
    \/ \E id \in CallKeys : StartsCall(id)
    \/ \E id \in CallKeys, status \in {"completed", "failed"} :
          EndsCall(id, status)
    \/ CleansUp
    \/ ClockAdvances

AnalyticsSpec == AnalyticsInit /\ [][AnalyticsNext]_vars

\* ------------------------------------------------------------------ claims
BargeGuardApplies(s) == ~s.toolsUnlocked /\ now < s.bargeGuardUntil

QueueIds(s) == {r.id : r \in Range(s.pendingFollowUps)}

\* C1: while heardUser is false no tool has a pending entry and none has been
\* handed to runTool: a function call announced before the caller's first
\* utterance is refused, so no later delta or done event can dispatch it.
C1_NoToolBeforeSpeech ==
    \A i \in SessIds :
        ~sess[i].heardUser =>
            /\ DOMAIN sess[i].pendingTools = {}
            /\ \A run \in runs : run.sid # i
            /\ madeSet[i] = {}

\* a function call was refused just now: the owning response was cancelled
\* inside the barge guard window, where speech cannot cancel anything
C1_Witness ==
    /\ ~sess[1].heardUser
    /\ BargeGuardApplies(sess[1])
    /\ Len(Cancels(out)) = 1
    /\ DOMAIN sess[1].pendingTools = {}

\* C2: every response.create was passed to the socket at a moment when
\* activeResponses was empty, whatever the source of the request.
C2_NoCreateWhileActive ==
    \A k \in DOMAIN out :
        out[k].type = "response.create" => out[k].active = 0

\* a request that had waited in pendingFollowUps was sent just now
C2_Witness ==
    \E k \in DOMAIN out :
        /\ out[k].type = "response.create"
        /\ out[k].req \in queuedSet[1]
        /\ out[k].delivered

\* C3: a speech-started event handled outside the barge guard while responses
\* are active sends exactly one response.cancel for each active id, none for
\* any other id, and leaves activeResponses empty.
C3_BargeInCancelsEach ==
    [][\A i \in SessIds :
          (/\ SpeechStarted(i)
           /\ sess[i].activeResponses # {}
           /\ ~BargeGuardApplies(sess[i]))
          => /\ \A r \in ResponseIds :
                  Len(SelectSeq(out', LAMBDA m : m.type = "response.cancel" /\ m.ref = r))
                    = IF r \in sess[i].activeResponses THEN 1 ELSE 0
             /\ Len(Cancels(out')) = Cardinality(sess[i].activeResponses)
             /\ sess'[i].activeResponses = {}]_vars

\* two active responses were cancelled by the caller's speech just now
C3_Witness ==
    /\ sess[1].userSpeaking
    /\ sess[1].activeResponses = {}
    /\ {m.ref : m \in Range(Cancels(out))} = ResponseIds
    /\ Len(out) = 2

\* C4: the greeting request is made at most once per session, when the
\* channel opens: it follows the initial session.update in the same handler,
\* before any acknowledgement, and no later event makes another one.
C4_GreetingOnce ==
    \A i \in SessIds :
        /\ greetings[i] <= 1
        /\ sess[i].greeted <=> greetings[i] = 1
        /\ (\E k \in DOMAIN reqs : reqs[k].source = "greeting") =>
              /\ Len(reqs) = 1
              /\ Len(out) = 2
              /\ out[1].type = "session.update"
              /\ out[2].type = "response.create" /\ out[2].source = "greeting"
              /\ ~sess[i].configured

\* the configuration was acknowledged after the greeting had been requested,
\* and the acknowledgement requested nothing
C4_Witness ==
    /\ sess[1].configured
    /\ sess[1].greeted
    /\ greetings[1] = 1
    /\ reqs = <<>>
    /\ out = <<>>

\* C5: while the channel is open, every request made with queueIfBlocked has
\* been sent as a response.create or is in pendingFollowUps, also after it
\* was released from the queue and blocked again.
C5_QueuedNeverLost ==
    \A i \in SessIds :
        sess[i].ws = "open" =>
            \A id \in madeSet[i] : id \in sentSet[i] \/ id \in QueueIds(sess[i])

\* a queued request was released by a completion, blocked by the gate and
\* put back just now
C5_Witness ==
    /\ sess[1].ws = "open"
    /\ settled = 0
    /\ Len(reqs) = 1
    /\ reqs[1].id \in QueueIds(sess[1])
    /\ sess[1].activeResponses = {}
    /\ out = <<>>

Failures == {"unsupported_tool", "invalid_arguments", "handler_failed"}

SentNow(o, id) ==
    \E k \in DOMAIN o : /\ o[k].type = "response.create"
                        /\ o[k].req = id
                        /\ o[k].source = "tool_follow_up_error"

\* C9 as stated: when a tool fails, the error follow-up is queued if a
\* response is active and is otherwise sent at once as a response.create.
C9_AsStated ==
    [][\A run \in runs, o \in Failures :
          ToolSettled(run, o) =>
             IF sess[run.sid].activeResponses # {}
             THEN /\ nextReq \in QueueIds(sess'[run.sid])
                  /\ ~SentNow(out', nextReq)
             ELSE /\ SentNow(out', nextReq)
                  /\ nextReq \notin QueueIds(sess'[run.sid])]_vars

\* C9: when a tool fails, the error follow-up is queued if a response is
\* active or the minimum-gap gate is still closed (now < responseGateUntil),
\* and is otherwise sent at once as a response.create.
C9_QueuedIfActiveOrGated ==
    [][\A run \in runs, o \in Failures :
          ToolSettled(run, o) =>
             IF \/ sess[run.sid].activeResponses # {}
                \/ now < sess[run.sid].responseGateUntil
             THEN /\ nextReq \in QueueIds(sess'[run.sid])
                  /\ ~SentNow(out', nextReq)
             ELSE /\ SentNow(out', nextReq)
                  /\ nextReq \notin QueueIds(sess'[run.sid])]_vars

\* a failed tool's request was queued just now with no response active,
\* because the gate was closed
C9_Witness ==
    /\ settled # 0
    /\ reqs = <<Request("tool_follow_up_error", settled, TRUE)>>
    /\ sess[1].activeResponses = {}
    /\ now < sess[1].responseGateUntil
    /\ settled \in QueueIds(sess[1])
    /\ out = <<>>

\* C10: activeResponses is exactly the set of ids for which a created event
\* was received and no completion or cancellation was processed since; so a
\* completion for an id outside the set changes nothing, and the set is
\* empty only when every created response was completed or cancelled.
C10_ActiveMatchesLifecycle ==
    \A i \in SessIds : sess[i].activeResponses = openResps[i]

\* of two created responses one was cancelled by a refused function call
\* just now and the other is still active
C10_Witness ==
    /\ ~sess[1].heardUser
    /\ Len(out) = 1
    /\ out[1].type = "response.cancel"
    /\ out[1].ref = "resp_1"
    /\ sess[1].activeResponses = {"resp_2"}

\* C7: requests leave pendingFollowUps in the order they were first queued
\* (request ids are given in that order): a request queued earlier is never
\* sent after one queued later.
C7_ReleasedInQueueOrder ==
    [][\A i \in SessIds : \A a, b \in queuedSet[i] :
          (a < b /\ b \in sentSet[i] /\ a \in sentSet'[i]) => a \in sentSet[i]]_vars

\* the request queued second has been sent while the one queued first waits
C7_Witness ==
    /\ {1, 2} \subseteq queuedSet[1]
    /\ 2 \in sentSet[1]
    /\ 1 \in QueueIds(sess[1])

\* ------------------------------------------------- the call that goes on
\* The channel stays open, the clock advances, the provider creates a
\* response for every response.create it was sent (and no other) and
\* completes every response it created, every tool execution settles and
\* every due timer fires.  The caller is free to stay silent.
FairInit == InitState /\ tracked = TRUE /\ AuxIdle

ProviderCreates(sid) ==
    /\ awaiting[sid] > 0
    /\ \E r \in ResponseIds : ResponseCreated(sid, r)

ProviderCompletes(sid, r) ==
    /\ r \in sess[sid].activeResponses
    /\ ResponseDone(sid, r)

FairNext ==
    \/ CallAccepted(CoreCall, 1)
    \/ \E sid \in CoreSess : WsOpen(sid)
    \/ \E sid \in CoreSess : SessionUpdated(sid)
    \/ \E sid \in CoreSess : ProviderCreates(sid)
    \/ \E sid \in CoreSess, r \in ResponseIds : ResponseDone(sid, r)
    \/ \E sid \in CoreSess : SpeechStarted(sid)
    \/ \E sid \in CoreSess : SpeechStopped(sid)
    \/ \E sid \in CoreSess : ConversationItem(sid, "user")
    \/ \E sid \in CoreSess, n \in CoreTools, r \in ResponseIds \cup {NoId} :
          OutputItemAdded(sid, "function_call", CoreItem, n, r)
    \/ \E sid \in CoreSess : ArgumentsDone(sid, CoreItem, FALSE, <<>>, "fc_1")
    \/ \E run \in runs, o \in Failures \cup {"ok"} : ToolSettled(run, o)
    \/ \E t \in timers : TurnTimerFires(t)
    \/ Tick

FairSpec ==
    /\ FairInit
    /\ [][FairNext]_vars
    /\ WF_vars(Tick)
    /\ WF_vars(\E run \in runs, o \in Failures \cup {"ok"} : ToolSettled(run, o))
    /\ WF_vars(\E t \in timers : TurnTimerFires(t))
    /\ \A sid \in CoreSess :
          /\ WF_vars(ProviderCreates(sid))
          /\ \A r \in ResponseIds : WF_vars(ProviderCompletes(sid, r))

\* C6: on a channel that stays open, with time advancing and every response
\* completed, every request placed in pendingFollowUps is eventually sent as
\* a response.create.
C6_QueuedEventuallySent ==
    \A i \in CoreSess : \A id \in 1..MaxReq :
        (id \in QueueIds(sess[i])) ~> (id \in sentSet[i])

\* a request waits in the queue with no response active, the gate open and
\* nothing outstanding that could release it
C6_Witness ==
    /\ sess[1].ws = "open"
    /\ sess[1].pendingFollowUps # <<>>
    /\ sess[1].activeResponses = {}
    /\ awaiting[1] = 0
    /\ now >= sess[1].responseGateUntil
    /\ runs = {}
    /\ timers = {}
    /\ ~sess[1].userSpeaking

\* C11: a speech-started event handled inside the barge guard (tools not
\* unlocked, clock before bargeGuardUntil) sends no response.cancel and
\* leaves activeResponses and the pending turn timer as they were.
C11_GuardedSpeechCancelsNothing ==
    [][\A i \in SessIds :
          (SpeechStarted(i) /\ BargeGuardApplies(sess[i]))
          => /\ Cancels(out') = <<>>
             /\ sess'[i].activeResponses = sess[i].activeResponses
             /\ sess'[i].pendingTurnTimer = sess[i].pendingTurnTimer
             /\ timers' = timers]_vars

\* speech started inside the guard while the greeting's response was active,
\* and the response is still active
C11_Witness ==
    /\ BargeGuardApplies(sess[1])
    /\ sess[1].userSpeaking
    /\ sess[1].activeResponses # {}
    /\ out = <<>>

\* C12: a speech-started event handled inside the barge guard changes no
\* field of the session, userSpeaking included.
C12_GuardedSpeechChangesNothing ==
    [][\A i \in SessIds :
          (SpeechStarted(i) /\ BargeGuardApplies(sess[i]))
          => sess'[i] = sess[i]]_vars

\* the caller is marked speaking while the guard still applies
C12_Witness ==
    /\ BargeGuardApplies(sess[1])
    /\ sess[1].userSpeaking
    /\ ~sess[1].heardUser
    /\ sess[1].activeResponses = {}

ToolChoiceUpdates(o) ==
    SelectSeq(o, LAMBDA m : m.type = "session.update" /\ m.source = "tool_choice")

\* C13: heardUser and toolsUnlocked are one-way latches.  The first event
\* carrying caller speech sets heardUser, clears the barge guard and sends
\* one tool_choice update; afterwards neither flag is reset, the barge guard
\* stays cleared and no further tool_choice update is sent.
C13_SpeechLatches ==
    [][\A i \in SessIds :
          /\ ((\/ ConversationItem(i, "user")
               \/ InputTranscript(i, TRUE)) /\ ~sess[i].heardUser)
             => /\ sess'[i].heardUser
                /\ sess'[i].toolsUnlocked
                /\ sess'[i].bargeGuardUntil = 0
                /\ Len(ToolChoiceUpdates(out')) = 1
          /\ sess[i].heardUser
             => /\ sess'[i].heardUser
                /\ sess'[i].bargeGuardUntil = 0
          /\ sess[i].toolsUnlocked
             => /\ sess'[i].toolsUnlocked
                /\ ToolChoiceUpdates(out') = <<>>
          /\ sess'[i].toolsUnlocked = sess'[i].heardUser]_vars

\* the caller's first speech arrived inside the barge guard just now: the
\* flags are set, the guard is cleared and the one update was sent
C13_Witness ==
    /\ sess[1].heardUser
    /\ sess[1].toolsUnlocked
    /\ sess[1].bargeGuardUntil = 0
    /\ sess[1].greeted
    /\ out = <<Msg("session.update", NoId, 0, "tool_choice", TRUE,
                   Cardinality(sess[1].activeResponses), 1)>>

\* C20: a tool-argument delta or arguments-done event for an item that has
\* no pending-tool entry changes nothing: the session, the outstanding tool
\* executions and timers are as before, and nothing is sent or requested.
C20_StrayToolEventDropped ==
    [][\A i \in SessIds :
          (/\ CoreItem \notin DOMAIN sess[i].pendingTools
           /\ \/ ArgumentsDelta(i, CoreItem, <<"r">>)
              \/ ArgumentsDone(i, CoreItem, FALSE, <<>>, "fc_1"))
          => /\ sess' = sess
             /\ runs' = runs
             /\ timers' = timers
             /\ nextReq' = nextReq
             /\ out' = <<>>
             /\ reqs' = <<>>]_vars

\* the item's tool call has completed and its follow-up was requested; the
\* entry is gone, so a further delta or done event for the item is a stray
C20_Witness ==
    /\ sess[1].ws = "open"
    /\ sess[1].heardUser
    /\ CoreItem \notin DOMAIN sess[1].pendingTools
    /\ runs = {}
    /\ madeSet[1] # {}
    /\ out = <<>>
    /\ reqs = <<>>
    /\ settled = 0

\* a message of the call's channel is handled: the 'message' listener runs
\* routeRealtimeEvent for it
InboundEvent(i) ==
    \/ SessionUpdated(i)
    \/ \E r \in ResponseIds : ResponseCreated(i, r) \/ ResponseDone(i, r)
    \/ SpeechStarted(i)
    \/ SpeechStopped(i)
    \/ \E role \in {"user", "assistant"} : ConversationItem(i, role)
    \/ \E hasText \in BOOLEAN : InputTranscript(i, hasText)
    \/ \E n \in CoreTools, r \in ResponseIds \cup {NoId} :
          OutputItemAdded(i, "function_call", CoreItem, n, r)
    \/ ArgumentsDelta(i, CoreItem, <<"r">>)
    \/ ArgumentsDone(i, CoreItem, FALSE, <<>>, "fc_1")

\* C15: the events of a call are handled strictly in arrival order: while
\* the handling of an arguments-done event is unfinished (its handoff is
\* still running, so its function result and follow-up are still to come),
\* the handling of a later event of the call has no effect.
C15_EventsHandledInArrivalOrder ==
    [][\A i \in SessIds :
          ((\E run \in runs : run.sid = i /\ run.name = "handoff_human")
           /\ runs' = runs
           /\ InboundEvent(i))
          => /\ sess'[i] = sess[i]
             /\ out' = <<>>
             /\ reqs' = <<>>]_vars

\* a response was cancelled by the caller's speech while the handoff of an
\* earlier arguments-done event was still running
C15_Witness ==
    /\ \E run \in runs : run.sid = 1 /\ run.name = "handoff_human"
    /\ sess[1].userSpeaking
    /\ Len(Cancels(out)) = 1

VoiceUpdates(o) ==
    SelectSeq(o, LAMBDA m : m.type = "session.update" /\ m.source = "voice")

\* C14: the voice fallback is applied at most once per session: once a
\* fallback session update has been sent, the handling of a further error
\* event sends nothing.
C14_VoiceRetryAtMostOnce ==
    [][\A i \in SessIds :
          ((\E code \in ErrorCodes, param \in ErrorParams :
                RealtimeError(i, code, param))
           /\ voiceRetries[i] > 0)
          => out' = <<>>]_vars

\* a second fallback update was sent just now
C14_Witness ==
    /\ voiceRetries[1] = 2
    /\ Len(VoiceUpdates(out)) = 1
    /\ sess[1].ws = "open"

\* the session constructed for the call c, 0 when there is none (for a call
\* notified once there is at most one)
SessionOf(c) ==
    IF \E i \in SessIds : sess[i].ws # "none" /\ sess[i].callId = c
    THEN CHOOSE i \in SessIds : sess[i].ws # "none" /\ sess[i].callId = c
    ELSE 0

\* C16: for a call notified once, the registry holds the call's session
\* while its channel is open or failing, the entry is removed in the step
\* in which the channel closes and in no other, and after the close the
\* registry has no entry for the call.
C16_EntryFromOpenToClose ==
    /\ [](\A c \in CallIds :
            (notified[c] = 1 /\ SessionOf(c) # 0) =>
                /\ sess[SessionOf(c)].ws \in {"open", "errored"}
                      => registry[c] = SessionOf(c)
                /\ sess[SessionOf(c)].ws = "closed" => registry[c] = 0)
    /\ [][\A c \in CallIds :
            (notified[c] = 1 /\ registry[c] # 0 /\ registry'[c] = 0)
            => /\ sess[registry[c]].ws # "closed"
               /\ sess'[registry[c]].ws = "closed"]_vars

\* the channel of a call notified once had opened and has closed: the
\* entry is gone
C16_Witness ==
    /\ notified["call_1"] = 1
    /\ SessionOf("call_1") = 1
    /\ sess[1].ws = "closed"
    /\ sess[1].greeted
    /\ registry["call_1"] = 0

\* C17: the registry holds no entry for a call whose channel has not opened.
C17_EntryOnlyAfterOpen ==
    \A c \in CallIds :
        registry[c] # 0 => sess[registry[c]].ws # "connecting"

\* accept succeeded just now: the session is registered and its socket is
\* still connecting
C17_Witness ==
    /\ lastIntake = "attached"
    /\ registry["call_1"] = 1
    /\ sess[1].ws = "connecting"

\* C18: a session is constructed only in the step in which the accept for
\* its call succeeded; a failed accept constructs no session and registers
\* nothing, and when the failure is call_id_not_found handleIncomingCall
\* returns without throwing.
C18_SessionOnlyAfterAccept ==
    [][/\ \A c \in CallIds :
             AcceptSettled(c, "call_id_not_found")
             => /\ sess' = sess
                /\ registry' = registry
                /\ lastIntake' = "skipped"
       /\ \A c \in CallIds :
             AcceptSettled(c, "conflict")
             => /\ sess' = sess
                /\ registry' = registry
       /\ \A i \in SessIds :
             (sess[i].ws = "none" /\ sess'[i].ws # "none")
             => \E c \in CallIds :
                   /\ AcceptSettled(c, "ok")
                   /\ sess'[i].callId = c]_vars

\* the accept of the only call notified failed with call_id_not_found:
\* the intake is over and there is no session
C18_Witness ==
    /\ lastIntake = "skipped"
    /\ Notifications = 1
    /\ \A c \in CallIds : intakes[c] = [scheduled |-> 0, accepting |-> 0]
    /\ \A i \in SessIds : sess[i].ws = "none"
    /\ \A c \in CallIds : registry[c] = 0

\* C19: a notification that fails verification or parsing, and a
\* call-incoming notification without call_id, is answered 400; a verified
\* notification of another type is answered 200; none of them schedules an
\* intake, constructs a session or changes the registry.
C19_RejectedAtTheBoundary ==
    [][\A unwrapOk \in BOOLEAN, eventType \in EventTypes,
          callId \in CallIds \cup {NoId} :
          /\ (WebhookPost(unwrapOk, eventType, callId)
              /\ (~unwrapOk
                  \/ (eventType = "realtime.call.incoming" /\ callId = NoId)))
             => /\ http' = 400
                /\ intakes' = intakes
                /\ sess' = sess
                /\ registry' = registry
          /\ (WebhookPost(unwrapOk, eventType, callId)
              /\ unwrapOk /\ eventType # "realtime.call.incoming")
             => /\ http' = 200
                /\ intakes' = intakes
                /\ sess' = sess
                /\ registry' = registry]_vars

\* a notification was rejected just now and nothing has been taken in
C19_Witness ==
    /\ http = 400
    /\ Notifications = 0
    /\ \A c \in CallIds : intakes[c] = [scheduled |-> 0, accepting |-> 0]
    /\ \A i \in SessIds : sess[i].ws = "none"

\* C21: the arguments handed to runTool are the parse of the done event's
\* arguments text when it carries one, and otherwise the parse of the
\* fragments received for the item since it was announced, joined in the
\* order they came; text that is empty or not JSON gives the empty object.
C21_DispatchedArguments ==
    [][\A i \in SessIds :
          /\ \A n \in ToolTable :
                (OutputItemAdded(i, "function_call", CoreItem, n, NoId)
                 /\ sess[i].heardUser)
                => sess'[i].pendingTools[CoreItem].argsBuffer = <<>>
          /\ \A f \in {"o1", "o2"} :
                (ArgumentsFragment(i, CoreItem, <<f>>)
                 /\ CoreItem \in DOMAIN sess[i].pendingTools)
                => sess'[i].pendingTools[CoreItem].argsBuffer =
                      Append(sess[i].pendingTools[CoreItem].argsBuffer, f)
          /\ \A h \in BOOLEAN, a \in DoneTexts, fc \in {"fc_1", NoId} :
                (ArgumentsDone(i, CoreItem, h, a, fc)
                 /\ CoreItem \in DOMAIN sess[i].pendingTools)
                => \E run \in runs' \ runs :
                      LET text == IF h THEN a
                                  ELSE sess[i].pendingTools[CoreItem].argsBuffer
                      IN  run.args = IF text = <<"o1", "o2">> THEN "order"
                                     ELSE IF text = <<"r">> THEN "reason"
                                     ELSE "empty"
          /\ (CoreItem \in DOMAIN sess[i].pendingTools
              /\ CoreItem \in DOMAIN sess'[i].pendingTools
              /\ sess'[i].pendingTools[CoreItem].argsBuffer
                    # sess[i].pendingTools[CoreItem].argsBuffer)
             => \/ \E f \in {"o1", "o2"} : ArgumentsFragment(i, CoreItem, <<f>>)
                \/ \E n \in ToolTable :
                      OutputItemAdded(i, "function_call", CoreItem, n, NoId)]_vars

\* lookup_order is being run with {orderNumber: ...}: the done event had no
\* arguments text and the two halves came as two fragments, in order
C21_Witness ==
    \E run \in runs :
        /\ run.name = "lookup_order"
        /\ run.args = "order"
        /\ out = <<>>

C23_RefusedCallCancelsOwner ==
    [][\A i \in SessIds, n \in CoreTools, r \in ResponseIds \cup {NoId} :
          (OutputItemAdded(i, "function_call", CoreItem, n, r)
           /\ ~sess[i].heardUser
           /\ sess[i].activeResponses # {})
          => /\ CoreItem \notin DOMAIN sess'[i].pendingTools
             /\ Len(Cancels(out')) = 1
             /\ Cancels(out')[1].ref \in sess[i].activeResponses
             /\ Cancels(out')[1].ref \notin sess'[i].activeResponses]_vars

\* before the caller has spoken the greeting's response is active and the
\* last event sent nothing: a function call announced without response.id
\* leaves the session like this
C23_Witness ==
    /\ sess[1].ws = "open"
    /\ ~sess[1].heardUser
    /\ Cardinality(sess[1].activeResponses) = 1
    /\ DOMAIN sess[1].pendingTools = {}
    /\ out = <<>>

TimersOf(T, i) == {t \in T : t.sid = i}

TurnRequests(q) == SelectSeq(q, LAMBDA r : r.source = "turn_response")

\* C24: a speech-stopped event schedules the turn callback, due TurnDelayMs
\* from now, exactly when the session is configured, the caller was marked
\* speaking and heardUser is true; a speech-started event handled while a
\* turn is scheduled cancels it; and a turn-response request is made only
\* by a scheduled callback that is due and had not been cancelled.
C24_TurnScheduledAndCancelled ==
    [][\A i \in SessIds :
          /\ SpeechStopped(i) =>
                IF /\ sess[i].configured
                   /\ sess[i].userSpeaking
                   /\ sess[i].heardUser
                THEN /\ sess'[i].pendingTurnTimer # 0
                     /\ TimersOf(timers', i) =
                           {[sid |-> i, id |-> sess'[i].pendingTurnTimer,
                             due |-> now + TurnDelayMs]}
                ELSE /\ timers' = timers
                     /\ sess'[i].pendingTurnTimer = sess[i].pendingTurnTimer
          /\ (SpeechStarted(i) /\ sess[i].pendingTurnTimer # 0)
             => /\ TimersOf(timers', i) = {}
                /\ sess'[i].pendingTurnTimer = 0
          /\ (TurnRequests(reqs') # <<>> /\ sess'[i] # sess[i])
             => \E t \in TimersOf(timers, i) :
                   /\ t.due <= now
                   /\ t.id = sess[i].pendingTurnTimer
                   /\ t \notin timers'
                   /\ Len(TurnRequests(reqs')) = 1]_vars

\* the caller stopped speaking just now and the turn is scheduled
C24_Witness ==
    /\ sess[1].heardUser
    /\ ~sess[1].userSpeaking
    /\ sess[1].pendingTurnTimer # 0
    /\ timers = {[sid |-> 1, id |-> sess[1].pendingTurnTimer,
                  due |-> now + TurnDelayMs]}
    /\ out = <<>>

\* C25: a step that sends a response.create sends one, at a time that is
\* not before responseGateUntil, and sets responseGateUntil to that time
\* plus minGapMs; no other handler changes responseGateUntil, so between
\* two response.create messages of a session at least minGapMs pass.
C25_MinimumGapBetweenCreates ==
    [][\A i \in CoreSess :
          /\ Creates(out') # <<>>
             => /\ Len(Creates(out')) = 1
                /\ sess[i].responseGateUntil <= now
                /\ sess'[i].responseGateUntil = now + sess[i].minGapMs
          /\ Creates(out') = <<>>
             => \/ sess'[i].responseGateUntil = sess[i].responseGateUntil
                \/ /\ Tick
                   /\ sess'[i].responseGateUntil = Later(sess[i].responseGateUntil)]_vars

\* after the greeting a tool's follow-up was sent just now, and the gate is
\* closed for the next minGapMs
C25_Witness ==
    /\ Len(Creates(out)) = 1
    /\ Creates(out)[1].source = "tool_follow_up_success"
    /\ sess[1].responseGateUntil = now + MinGapMs
    /\ greetings[1] = 1

FunctionResults(o) ==
    SelectSeq(o, LAMBDA m : m.type = "conversation.item.create")

\* C26: when a tool succeeds, one function_call_output carrying the event's
\* call_id is sent if the done event had a call_id and none otherwise, it
\* is the first message of the step, ahead of the follow-up's
\* response.create, and the follow-up request carries the tool's
\* followUpInstructions (the generic text when the result has none); when
\* the tool fails no function_call_output is sent.
C26_FunctionResultThenFollowUp ==
    [][\A run \in runs :
          /\ ToolSettled(run, "ok")
             => /\ FunctionResults(out') =
                      IF run.callId # NoId
                      THEN <<Msg("conversation.item.create", run.callId, 0,
                                 "function_call_output",
                                 sess[run.sid].ws = "open",
                                 Cardinality(sess[run.sid].activeResponses),
                                 run.sid)>>
                      ELSE <<>>
                /\ run.callId # NoId => out'[1].type = "conversation.item.create"
                /\ Len(reqs') = 1
                /\ reqs'[1].source = "tool_follow_up_success"
                /\ reqs'[1].instructions =
                      IF run.name \in ToolTable THEN "followUpInstructions"
                      ELSE "generic"
          /\ \A o \in {"invalid_arguments", "handler_failed"} :
                ToolSettled(run, o)
                => /\ FunctionResults(out') = <<>>
                   /\ Len(reqs') = 1
                   /\ reqs'[1].source = "tool_follow_up_error"]_vars

\* a tool succeeded just now: its result went out under the event's
\* call_id and the follow-up's response.create after it
C26_Witness ==
    /\ Len(out) = 2
    /\ out[1].type = "conversation.item.create"
    /\ out[1].ref = "fc_1"
    /\ out[2].type = "response.create"
    /\ out[2].source = "tool_follow_up_success"
    /\ reqs[1].instructions = "followUpInstructions"

\* what the schema of a tool of the table accepts
SchemaAccepts(name, args) ==
    \/ name = "lookup_order" /\ args = "order"
    \/ name = "handoff_human" /\ args = "reason"

\* C27: runTool fails with unsupported_tool for a name that is not in the
\* tool table and with invalid_arguments for arguments the tool's schema
\* rejects; the handler runs (and the call ends in its result or in its
\* failure) only for a tool of the table with accepted arguments; and a
\* failure of the handler reaches fulfillToolCall, which makes the error
\* follow-up.
C27_DispatcherValidates ==
    [][\A run \in runs, o \in {"ok", "unsupported_tool", "invalid_arguments",
                              "handler_failed"} :
          ToolSettled(run, o)
          => /\ run.name \notin ToolTable => o = "unsupported_tool"
             /\ (run.name \in ToolTable /\ ~SchemaAccepts(run.name, run.args))
                => o = "invalid_arguments"
             /\ o \in {"ok", "handler_failed"}
                => /\ run.name \in ToolTable
                   /\ SchemaAccepts(run.name, run.args)
             /\ o # "ok"
                => /\ Len(reqs') = 1
                   /\ reqs'[1].source = "tool_follow_up_error"]_vars

\* a tool call failed just now and nothing is running: the error follow-up
\* was requested
C27_Witness ==
    /\ settled # 0
    /\ runs = {}
    /\ Len(reqs) = 1
    /\ reqs[1].source = "tool_follow_up_error"
    /\ reqs[1].id = settled

\* C28: whenever the caller is marked speaking and the barge guard does not
\* apply, no response is active.
C28_CallerVoiceWins ==
    \A i \in SessIds :
        (sess[i].userSpeaking /\ ~BargeGuardApplies(sess[i]))
        => sess[i].activeResponses = {}

\* the caller has spoken before and is speaking, and a response the server
\* had asked for is active
C28_Witness ==
    /\ sess[1].userSpeaking
    /\ sess[1].heardUser
    /\ sess[1].activeResponses # {}
    /\ out = <<>>

\* C29: a request made without queueIfBlocked while a response is active or
\* the gate is closed sends no response.create and leaves pendingFollowUps
\* and responseGateUntil as they were; such a request is never in the
\* queue, so nothing submits it later.
C29_BlockedRequestDropped ==
    [][\A i \in CoreSess :
          /\ (/\ Len(reqs') = 1
              /\ ~reqs'[1].queueIfBlocked
              /\ \/ sess[i].activeResponses # {}
                 \/ now < sess[i].responseGateUntil)
             => /\ Creates(out') = <<>>
                /\ sess'[i].pendingFollowUps = sess[i].pendingFollowUps
                /\ sess'[i].responseGateUntil = sess[i].responseGateUntil
          /\ \A k \in DOMAIN sess'[i].pendingFollowUps :
                sess'[i].pendingFollowUps[k].source
                   \in {"tool_follow_up_success", "tool_follow_up_error"}]_vars

\* the turn callback ran just now while a response was active: its request
\* was dropped
C29_Witness ==
    /\ reqs = <<Request("turn_response", 0, FALSE)>>
    /\ sess[1].activeResponses # {}
    /\ out = <<>>
    /\ sess[1].pendingFollowUps = <<>>

\* C30: a session has at most one turn callback outstanding, the one
\* pendingTurnTimer names; scheduling replaces it, and a callback that ran
\* or was cancelled is outstanding no more.
C30_TurnTimersNeverStack ==
    /\ [](\A i \in SessIds :
            /\ Cardinality(TimersOf(timers, i)) <= 1
            /\ \A t \in TimersOf(timers, i) : t.id = sess[i].pendingTurnTimer
            /\ sess[i].pendingTurnTimer # 0 => TimersOf(timers, i) # {})
    /\ [][\A t \in timers :
            TurnTimerFires(t) => t \notin timers']_vars

\* well into the call a turn is scheduled while a response is active: one
\* callback is outstanding, the one pendingTurnTimer names
C30_Witness ==
    /\ sess[1].pendingTurnTimer # 0
    /\ Cardinality(TimersOf(timers, 1)) = 1
    /\ \A t \in timers : t.due = now + TurnDelayMs
    /\ sess[1].responseGateUntil = 0
    /\ sess[1].activeResponses # {}
    /\ sess[1].heardUser

\* what belongs to the call of session i besides the session object: its
\* suspended tool executions
RunsOf(R, i) == {r \in R : r.sid = i}

\* C31: sessions are isolated.  A step of one call (the socket opening or
\* closing, an event of its channel, its turn timer, the completion of its
\* tool) leaves every field of the other call's session, the other call's
\* timers and tool executions and the other call's registry entry as they
\* were, and every message it sends goes to its own socket.
C31_SessionsIsolated ==
    [][\A i \in PairSess : \A j \in PairSess \ {i} :
          (SessionStep(i) \/ ToolStep(i) \/ WsClose(i)
             \/ CallAccepted(PairCall(i), i))
          => /\ sess'[j] = sess[j]
             /\ TimersOf(timers', j) = TimersOf(timers, j)
             /\ RunsOf(runs', j) = RunsOf(runs, j)
             /\ registry'[PairCall(j)] = registry[PairCall(j)]
             /\ \A k \in DOMAIN out' : out'[k].ws = i]_vars

\* the first call's tool has just completed and its result and follow-up
\* went out on the first call's socket, while the second call is open, its
\* caller has spoken and its turn timer is pending
C31_Witness ==
    /\ settled # 0
    /\ Len(out) = 2
    /\ \A k \in DOMAIN out : out[k].ws = 1 /\ out[k].delivered
    /\ registry["call_1"] = 1
    /\ registry["call_2"] = 2
    /\ sess[2].ws = "open"
    /\ sess[2].heardUser
    /\ sess[2].pendingTurnTimer # 0
    /\ TimersOf(timers, 2) # {}
    /\ ~sess[1].userSpeaking

\* C32: once a session's socket has closed nothing more is passed to it:
\* no step sends a message to the socket of a closed session, also not the
\* turn timer firing or a tool execution settling after the close.
C32_NothingSentAfterClose ==
    \A k \in DOMAIN out : sess[out[k].ws].ws # "closed"

\* the socket closed while the turn timer was pending and a tool execution
\* was in progress
C32_Witness ==
    /\ sess[1].ws = "closed"
    /\ sess[1].pendingTurnTimer # 0
    /\ TimersOf(timers, 1) # {}
    /\ RunsOf(runs, 1) # {}
    /\ out = <<>>

\* the places of a From text where a sip:<digits>@ part begins, and the
\* digit string (with its plus sign) of the part beginning at p
SipParts(v) ==
    {p \in DOMAIN v :
        /\ v[p] = "sip:"
        /\ \E e \in DOMAIN v :
              /\ e > p + 1
              /\ v[e] = "@"
              /\ \A k \in (p + 1)..(e - 1) : v[k] = "7" \/ (k = p + 1 /\ v[k] = "+")
              /\ v[e - 1] = "7"}

PartDigits(v, p) ==
    SubSeq(v, p + 1, (CHOOSE e \in DOMAIN v : e > p /\ v[e] = "@"
                         /\ \A k \in (p + 1)..(e - 1) : v[k] # "@") - 1)

\* C33: extractCallerPhone gives the digit string, with its plus sign if it
\* has one, that stands between "sip:" and "@" in the value of the first
\* entry that is an object named "from" in any letter case; it gives
\* undefined when no entry is such an object, when that entry's value is no
\* string, and when the value has no sip:<digits>@ part.
C33_CallerPhoneFromFirstFromHeader ==
    callerPhone # Pending =>
        LET froms == {k \in DOMAIN sipHeaders :
                         /\ sipHeaders[k].kind = "object"
                         /\ sipHeaders[k].name \in {"From", "from"}}
        IN  IF froms = {} THEN callerPhone = Undefined
            ELSE LET first == sipHeaders[CHOOSE k \in froms :
                                            \A r \in froms : k <= r]
                     v == first.value.text
                 IN  IF ~first.value.isString \/ SipParts(v) = {}
                     THEN callerPhone = Undefined
                     ELSE /\ callerPhone # Undefined
                          /\ \E p \in SipParts(v) : callerPhone = PartDigits(v, p)

\* the number was read from a list of two From headers, the first written
\* "from", each with a number of its own: the first one's was taken
C33_Witness ==
    /\ Len(sipHeaders) = 2
    /\ sipHeaders[1].kind = "object"
    /\ sipHeaders[1].name = "from"
    /\ sipHeaders[1].value = Str(<<"sip:", "+", "7", "@">>)
    /\ sipHeaders[2].name = "From"
    /\ sipHeaders[2].value = Str(<<"sip:", "7", "@">>)
    /\ callerPhone = <<"+", "7">>

\* C34: every line logged for a caller transcript has passed through
\* redactPII: it holds no e-mail address and no phone number of the
\* transcript.
C34_LoggedTranscriptRedacted ==
    logLines # NotLogged =>
        \A k \in DOMAIN logLines :
            \A j \in DOMAIN logLines[k].text :
                logLines[k].text[j] \notin {"email", "phone"}

\* a transcript with an e-mail address and a phone number was logged in
\* the JSON format: logTranscript's line has them replaced
C34_Witness ==
    /\ ~usePrettyLogs
    /\ transcript = <<"email", "word", "phone">>
    /\ logLines # NotLogged
    /\ Len(logLines) = 3
    /\ logLines[1] = LogLine("logTranscript", <<Redacted, "word", Redacted>>)

\* C35: no response.create is sent while the caller is marked speaking and
\* the barge guard does not apply, whether the request comes from the turn
\* timer, from a tool that finished or from the queue released by a
\* completed or done event.
C35_NoCreateWhileCallerSpeaks ==
    \A k \in DOMAIN out :
        out[k].type = "response.create"
        => ~(sess[out[k].ws].userSpeaking
             /\ ~BargeGuardApplies(sess[out[k].ws]))

\* the caller, heard before, is speaking, no response is active and the
\* gate is open, and a tool execution is about to settle
C35_Witness ==
    /\ sess[1].ws = "open"
    /\ sess[1].userSpeaking
    /\ sess[1].heardUser
    /\ ~BargeGuardApplies(sess[1])
    /\ sess[1].activeResponses = {}
    /\ sess[1].responseGateUntil = 0
    /\ RunsOf(runs, 1) # {}
    /\ out = <<>>

\* C36: a registered tool call is dispatched at most once.  The
\* arguments-done event that finds the item's entry removes the entry and
\* starts one execution; an arguments-done event for an item without an
\* entry (a repeated one, also while the first execution is under way)
\* starts none, requests nothing and sends nothing.
C36_DispatchedAtMostOnce ==
    [][\A sid \in CoreSess :
          ArgumentsDone(sid, CoreItem, FALSE, <<>>, "fc_1")
          => IF CoreItem \in DOMAIN sess[sid].pendingTools
             THEN /\ CoreItem \notin DOMAIN sess'[sid].pendingTools
                  /\ Cardinality(runs') = Cardinality(runs) + 1
                  /\ reqs' = <<>>
             ELSE /\ runs' = runs
                  /\ nextReq' = nextReq
                  /\ reqs' = <<>>
                  /\ out' = <<>>]_vars

\* the tool of item_1 was dispatched and is still executing; its entry is
\* gone, and the channel is open for a repeated arguments-done event
C36_Witness ==
    /\ sess[1].ws = "open"
    /\ \E r \in runs : r.sid = 1 /\ r.itemId = CoreItem
    /\ CoreItem \notin DOMAIN sess[1].pendingTools
    /\ out = <<>>
    /\ reqs = <<>>

\* C37: while a turn timer is pending the session is configured, the caller
\* has been heard and is not marked speaking; so the turn request the timer
\* makes is never made before the caller was heard or while the caller is
\* marked speaking.
C37_PendingTurnMeansHeardAndSilent ==
    /\ [](\A i \in SessIds :
            (sess[i].pendingTurnTimer # 0 \/ TimersOf(timers, i) # {})
            => /\ sess[i].configured
               /\ sess[i].heardUser
               /\ ~sess[i].userSpeaking)
    /\ [][\A t \in timers :
            TurnTimerFires(t)
            => /\ sess[t.sid].heardUser
               /\ ~sess[t.sid].userSpeaking
               /\ Len(reqs') = 1
               /\ reqs'[1].source = "turn_response"]_vars

\* the turn timer has just fired and its request went out: the caller had
\* been heard and is silent
C37_Witness ==
    /\ Len(reqs) = 1
    /\ reqs[1].source = "turn_response"
    /\ Len(out) = 1
    /\ out[1].type = "response.create"
    /\ sess[1].heardUser
    /\ sess[1].configured
    /\ ~sess[1].userSpeaking
    /\ sess[1].pendingTurnTimer = 0
    /\ sess[1].ws = "open"

\* C38: between handlers heardUser and toolsUnlocked have the same value in
\* every session, so the barge guard's test and the tool refusal's test
\* agree, and the barge guard does not apply once the caller was heard.
C38_HeardIffUnlocked ==
    \A i \in SessIds :
        /\ sess[i].heardUser = sess[i].toolsUnlocked
        /\ sess[i].heardUser => ~BargeGuardApplies(sess[i])
        /\ sess[i].heardUser => sess[i].bargeGuardUntil = 0

\* the caller's first item arrived within the gate of the greeting's
\* request, before the session was configured, and has just marked the
\* caller heard, ended the guard and unlocked the tools
C38_Witness ==
    /\ sess[1].heardUser
    /\ sess[1].toolsUnlocked
    /\ sess[1].greeted
    /\ Len(out) = 1
    /\ out[1].type = "session.update"
    /\ out[1].source = "tool_choice"
    /\ sess[1].responseGateUntil > now
    /\ ~sess[1].configured

\* the sessions constructed for call identifier c whose socket has not closed
\* yet
LiveSessions(c) ==
    {i \in SessIds : sess[i].callId = c
                     /\ sess[i].ws \in {"connecting", "open", "errored"}}

\* C39: whatever notifications arrive, also a repeated one for a call whose
\* session is still open, the registry has an entry for a call identifier
\* whenever a session of that identifier has a socket that is not closed,
\* and the entry names such a session: the close of one session does not
\* take away the entry of another that is still open.
C39_OpenSessionRegistered ==
    \A c \in CallIds :
        LiveSessions(c) # {} => registry[c] \in LiveSessions(c)

\* a call was notified twice and accepted twice: two sessions of the same
\* identifier are open and the registry names the later one
C39_Witness ==
    /\ notified["call_1"] = 2
    /\ sess[1].callId = "call_1"
    /\ sess[2].callId = "call_1"
    /\ sess[1].ws = "open"
    /\ sess[2].ws = "open"
    /\ registry["call_1"] = 2

\* the entries of the engine that are not active
Ended(m) == {k \in DOMAIN m : m[k].status # "active"}

\* C40: a cleanup removes no active call and changes no entry; after it at
\* most KeepCalls calls that are not active remain, it removes none unless
\* there were more, and no removed call started later than a remaining
\* call that is not active.
C40_CleanupKeepsActiveAndLatest ==
    [][CleansUp =>
         /\ \A k \in DOMAIN callMetrics :
               callMetrics[k].status = "active"
               => \E j \in DOMAIN callMetrics' : callMetrics'[j] = callMetrics[k]
         /\ \A j \in DOMAIN callMetrics' :
               \E k \in DOMAIN callMetrics : callMetrics[k] = callMetrics'[j]
         /\ Cardinality(Ended(callMetrics')) <= KeepCalls
         /\ Cardinality(Ended(callMetrics')) =
               IF Cardinality(Ended(callMetrics)) > KeepCalls THEN KeepCalls
               ELSE Cardinality(Ended(callMetrics))
         /\ \A k \in Ended(callMetrics) :
               callMetrics[k].callId \in swept'
               => \A j \in Ended(callMetrics') :
                     callMetrics'[j].startTime >= callMetrics[k].startTime]_vars

\* a cleanup has just deleted an ended call, and a call that started before
\* every remaining ended call is still there because it is active
C40_Witness ==
    /\ swept # {}
    /\ Cardinality(Ended(callMetrics)) = KeepCalls
    /\ \E a \in DOMAIN callMetrics :
          /\ callMetrics[a].status = "active"
          /\ \A j \in Ended(callMetrics) :
                callMetrics[j].startTime > callMetrics[a].startTime

====
